---- MODULE Spec2Model ----
(***************************************************************************)
(* Sim2Editor-Core: the checksum-validated save container of the two C++   *)
(* cores, S2NDSCore (src/cpp/S2NDSCore.cpp, .hpp) and S2GBACore            *)
(* (src/cpp/S2GBACore.hpp), and the session layer SAVUtils of the older    *)
(* S2Editor library (src/source/shared/SAVUtils.cpp).                      *)
(*                                                                         *)
(* The save buffer is a function from byte offsets to bytes.  Only the     *)
(* offsets the operations below touch are kept in its domain; every other  *)
(* byte of the buffer is 0 (see Byte).  All multi-byte values are          *)
(* little-endian, as the cores assume of their host.                       *)
(***************************************************************************)
EXTENDS Integers, Sequences, FiniteSets, TLC

VARIABLES
    core,        \* what the program is built on: the core "NDS" or "GBA", or "S2Editor"
    SavLoaded,   \* S2xxxCore::Sav != nullptr
    HasData,     \* SAV::SavData != nullptr
    SavData,     \* SAV::SavData, the bytes (AllZero when HasData is FALSE)
    SavSize,     \* SAV::SavSize
    SavValid,    \* SAV::SavValid
    ChangesMade, \* SAV::ChangesMade
    Slots,       \* NDS SAV::Slots[3], logical slot -> region or -1
    Region,      \* NDS SAV::Region
    Loaded,      \* the bytes handed to the constructor, before validation
    oob,         \* the value the GBA validation read at GBAIdent[7]
    op,          \* the last operation that ran
    res,         \* the boolean result of the last load
    fetched,     \* <<SavSlot, Reg, result>> of the last direct FetchSlot call
    fixed,       \* slot -> result of FixChecksum in the last Finish ("none": not called)
    nops,        \* writes and refused loads requested since the last construction
    streak,      \* Finish calls in a row up to now: 0, 1, or 2 for two and more
    Out,         \* what each fwrite so far put into the save file, oldest first
    Handle,      \* what the call just made left of the Data the caller passed to it:
                 \* "null", "held" (still the caller's), or "none" when it took no buffer
    SAV,         \* SAVUtils::SAV, the active SAVType
    SAVName,     \* SAVUtils::SAVName
    GBASAV,      \* GBASAVUtils::SAV: the null pointer or the container's flags
    NDSSAV,      \* NDSSAVUtils::SAV: the null pointer or the container's flags
    calc,        \* the checksum engine called by itself: its arguments and results
    call         \* the last field setter called: the field, its slot, the index and value passed

\* The state of the S2Editor session layer.
SessionVars == << SAV, SAVName, GBASAV, NDSSAV >>

vars == << core, SavLoaded, HasData, SavData, SavSize, SavValid, ChangesMade,
           Slots, Region, Loaded, oob, op, res, fetched, fixed, nops, streak,
           Out, Handle, SAV, SAVName, GBASAV, NDSSAV, calc, call >>

(***************************************************************************)
(* Bounds of the model.                                                    *)
(***************************************************************************)
MaxOps == 2      \* writes and refused loads requested per constructed container
MaxCount == 2    \* save counters range over 0..MaxCount

(***************************************************************************)
(* Program constants.                                                      *)
(***************************************************************************)
SlotSize == 4096                 \* 0x1000, size of a candidate region
GBASmall == 65536                \* 0x10000
GBALarge == 131072               \* 0x20000
NDSSmall == 262144               \* 0x40000
NDSLarge == 524288               \* 0x80000

\* NDS SAV::SlotIdent[8] = 64 61 74 00 1F 00 00 00, indexed from 0
SlotIdent == [ID \in 0..7 |-> << 100, 97, 116, 0, 31, 0, 0, 0 >>[ID + 1]]
\* GBA SAV::GBAIdent[7] = 53 54 57 4E 30 32 34, indexed from 0
GBAIdent == [Idx \in 0..6 |-> << 83, 84, 87, 78, 48, 50, 52 >>[Idx + 1]]

Bytes == 0..255

Min(S) == CHOOSE x \in S : \A y \in S : x <= y

(***************************************************************************)
(* Raw buffer access.                                                      *)
(***************************************************************************)
\* Buffer[o]: a byte outside the tracked offsets is 0.
Byte(Buffer, o) == IF o \in DOMAIN Buffer THEN Buffer[o] ELSE 0

\* memcpy(&Temp, SavData + Offs, sizeof(T)) on a little-endian host.
RECURSIVE ReadLE(_, _, _)
ReadLE(Buffer, Offs, Size) ==
    IF Size = 0 THEN 0
    ELSE Byte(Buffer, Offs) + 256 * ReadLE(Buffer, Offs + 1, Size - 1)

\* The loop of SAV::Write<T>: SavData[Offs + Idx] = (uint8_t)Data; Data >>= 8.
RECURSIVE WriteLE(_, _, _, _)
WriteLE(Buffer, Offs, Data, Size) ==
    IF Size = 0 THEN Buffer
    ELSE WriteLE([Buffer EXCEPT ![Offs] = Data % 256], Offs + 1, Data \div 256, Size - 1)

(***************************************************************************)
(* Checksum engine.                                                        *)
(***************************************************************************)
\* The loop body without the carry into Byte2.
CalcStep_NoCarry(acc, Buffer, Idx) ==
    << (acc[1] + Byte(Buffer, Idx * 2)) % 256,
       (acc[2] + Byte(Buffer, Idx * 2 + 1)) % 256 >>

\* One pass of the loop body for a word that is not skipped:
\*   if (Buffer[Idx * 2] + Byte1 > 255) Byte2++;
\*   Byte1 += Buffer[Idx * 2]; Byte2 += Buffer[(Idx * 2) + 1];
\* on uint8_t accumulators, acc = <<Byte1, Byte2>>.
CalcStep(acc, Buffer, Idx) ==
    LET Lo == Byte(Buffer, Idx * 2)
        Hi == Byte(Buffer, Idx * 2 + 1)
        Carried == IF Lo + acc[1] > 255 THEN (acc[2] + 1) % 256 ELSE acc[2]
    IN  << (acc[1] + Lo) % 256, (Carried + Hi) % 256 >>

\* The next word index after Idx the loop has something to add for: a word
\* with both bytes outside the tracked offsets is 0 and 0, and CalcStep
\* leaves both accumulators as they are on it, so the walk goes from one
\* tracked word to the next.
NextIdx(Buffer, Idx, EndOffs) ==
    LET Later == { o \div 2 : o \in DOMAIN Buffer } \cap ((Idx + 1)..(EndOffs - 1))
    IN  IF Later = {} THEN EndOffs ELSE Min(Later)

\* The loops below carry acc = <<Byte1, Byte2>>, two uint8_t.  Each pass
\* looks at acc[1] \notin Bytes, which never holds, next to the loop test:
\* the accumulators are thereby computed pass by pass, as the code computes
\* them, and not as one nested sum when the loop ends.

\* The loop with the test against SkipOffs left out.
RECURSIVE NDS_CalcLoop_NoSkip(_, _, _, _, _)
NDS_CalcLoop_NoSkip(Buffer, Idx, EndOffs, SkipOffs, acc) ==
    IF Idx >= EndOffs \/ acc[1] \notin Bytes THEN acc
    ELSE NDS_CalcLoop_NoSkip(Buffer, NextIdx(Buffer, Idx, EndOffs), EndOffs, SkipOffs,
                             CalcStep(acc, Buffer, Idx))

\* for (Idx = StartOffs; Idx < EndOffs; Idx++), S2NDSCore: the words listed
\* in SkipOffs are passed over.
RECURSIVE NDS_CalcLoop(_, _, _, _, _)
NDS_CalcLoop(Buffer, Idx, EndOffs, SkipOffs, acc) ==
    IF Idx >= EndOffs \/ acc[1] \notin Bytes THEN acc
    ELSE NDS_CalcLoop(Buffer, NextIdx(Buffer, Idx, EndOffs), EndOffs, SkipOffs,
                      IF Idx \in SkipOffs THEN acc ELSE CalcStep(acc, Buffer, Idx))

\* The return statement without the Byte2++ ahead of it.
CalcResult_NoIncrement(acc) ==
    256 * ((256 - acc[2]) % 256) + ((256 - acc[1]) % 256)

\* Byte2++; return (256 * (uint8_t)-Byte2) + (uint8_t)-Byte1;
CalcResult(acc) ==
    LET Byte1 == acc[1]
        Byte2 == (acc[2] + 1) % 256
    IN  256 * ((256 - Byte2) % 256) + ((256 - Byte1) % 256)

\* S2NDSCore::Checksum::Calc(Buffer, StartOffs, EndOffs, SkipOffs)
NDS_Calc(Buffer, StartOffs, EndOffs, SkipOffs) ==
    CalcResult(NDS_CalcLoop(Buffer, StartOffs, EndOffs, SkipOffs, << 0, 0 >>))

\* The S2GBACore loop passing over the word 0xE instead of the word 0xE / 2.
RECURSIVE GBA_CalcLoop_SkipsWordE(_, _, _, _, _)
GBA_CalcLoop_SkipsWordE(Buffer, Idx, EndOffs, SettingsChks, acc) ==
    IF Idx >= EndOffs \/ acc[1] \notin Bytes THEN acc
    ELSE GBA_CalcLoop_SkipsWordE(Buffer, NextIdx(Buffer, Idx, EndOffs), EndOffs,
                                 SettingsChks,
                                 IF SettingsChks /\ Idx = 14 THEN acc
                                 ELSE CalcStep(acc, Buffer, Idx))

\* for (Idx = StartOffs; Idx < EndOffs; Idx++), S2GBACore: with SettingsChks
\* the word 0xE / 2 is passed over.
RECURSIVE GBA_CalcLoop(_, _, _, _, _)
GBA_CalcLoop(Buffer, Idx, EndOffs, SettingsChks, acc) ==
    IF Idx >= EndOffs \/ acc[1] \notin Bytes THEN acc
    ELSE GBA_CalcLoop(Buffer, NextIdx(Buffer, Idx, EndOffs), EndOffs, SettingsChks,
                      IF SettingsChks /\ Idx = 14 \div 2 THEN acc
                      ELSE CalcStep(acc, Buffer, Idx))

\* S2GBACore::Checksum::Calc(Buffer, StartOffs, EndOffs, SettingsChks)
GBA_Calc(Buffer, StartOffs, EndOffs, SettingsChks) ==
    CalcResult(GBA_CalcLoop(Buffer, StartOffs, EndOffs, SettingsChks, << 0, 0 >>))

\* The loop body of Checksum_Calc (src/shared/checksum.js) on JavaScript
\* numbers:
\*   Byte1 = Byte1 + lo; if (Byte1 > 255) { Byte1 = Byte1 % 256; Byte2++; }
\*   Byte2 = (Byte2 + hi) % 256;
JS_CalcStep(acc, Buffer, Index) ==
    LET Sum == acc[1] + Byte(Buffer, Index * 2)
        Carried == IF Sum > 255 THEN acc[2] + 1 ELSE acc[2]
    IN  << IF Sum > 255 THEN Sum % 256 ELSE Sum,
           (Carried + Byte(Buffer, Index * 2 + 1)) % 256 >>

\* for (Index = StartOffs; Index < EndOffs; Index++) of Checksum_Calc.
RECURSIVE JS_CalcLoop(_, _, _, _, _)
JS_CalcLoop(Buffer, Index, EndOffs, SkipOffs, acc) ==
    IF Index >= EndOffs \/ acc[1] \notin Bytes THEN acc
    ELSE JS_CalcLoop(Buffer, NextIdx(Buffer, Index, EndOffs), EndOffs, SkipOffs,
                     IF Index \in SkipOffs THEN acc ELSE JS_CalcStep(acc, Buffer, Index))

\* Checksum_Calc(Buffer, StartOffs, EndOffs, SkipOffs) of the JavaScript port:
\*   Byte2++; if (Byte2 > 255) Byte2 = 0;
\*   return (256 * (256 - Byte2)) + (256 - Byte1);
Checksum_Calc(Buffer, StartOffs, EndOffs, SkipOffs) ==
    LET acc == JS_CalcLoop(Buffer, StartOffs, EndOffs, SkipOffs, << 0, 0 >>)
        Byte1 == acc[1]
        Byte2 == IF acc[2] + 1 > 255 THEN 0 ELSE acc[2] + 1
    IN  256 * (256 - Byte2) + (256 - Byte1)

\* Checksum_CalcNDSSlotHeader with the Byte2++ taken whatever byte 0x13 holds.
Checksum_CalcNDSSlotHeader_Always(Buffer, Slot) ==
    Checksum_Calc(Buffer, (Slot * SlotSize) \div 2, (Slot * SlotSize + 19 + 1) \div 2,
                  { (Slot * SlotSize + 14) \div 2 })

\* Checksum_CalcNDSSlotHeader(Buffer, Slot) of the JavaScript port: the loop
\* of Checksum_Calc for Index < ((Slot * 0x1000) + 0x13) / 2, a bound half
\* way between two integers that admits the ten words of the bytes
\* 0x0..0x13, with the word 0xE / 2 passed over; then
\*   if (Buffer.getUint8((Slot * 0x1000) + 0x13) == 0x0) Byte2++;
\*   if (Byte2 > 255) Byte2 = 0;
\*   return (256 * (256 - Byte2)) + (256 - Byte1);
Checksum_CalcNDSSlotHeader(Buffer, Slot) ==
    LET acc == JS_CalcLoop(Buffer, (Slot * SlotSize) \div 2,
                           (Slot * SlotSize + 19 + 1) \div 2,
                           { (Slot * SlotSize + 14) \div 2 }, << 0, 0 >>)
        Byte1 == acc[1]
        Bumped == IF Byte(Buffer, Slot * SlotSize + 19) = 0 THEN acc[2] + 1 ELSE acc[2]
        Byte2 == IF Bumped > 255 THEN 0 ELSE Bumped
    IN  256 * (256 - Byte2) + (256 - Byte1)

\* SAVUtils_Write("uint16_t", Offs, Data) of the JavaScript port followed by
\* SAVUtils_Read("uint16_t", Offs): setUint16(Offs, Math.min(0xFFFF, Data),
\* true), then getUint16(Offs, true).
JS_WriteRead16(Data) ==
    LET Field == [o \in 0..1 |-> 0]
    IN  ReadLE(WriteLE(Field, 0, Min({65535, Data}), 2), 0, 2)

\* SAV::Write<uint16_t>(Offs, Data) followed by SAV::Read<uint16_t>(Offs).
WriteRead16(Data) ==
    LET Field == [o \in 0..1 |-> 0]
    IN  ReadLE(WriteLE(Field, 0, Data, 2), 0, 2)

(***************************************************************************)
(* NDS: validation and slot resolution.                                    *)
(***************************************************************************)
\* The ID == 4 loop of ValidationCheck trying the codes 0 and 1 only.
RegionOf_TwoCodes(Buffer, Slot) ==
    LET Hit == { Reg \in 0..1 : Byte(Buffer, Slot * SlotSize + 4) = SlotIdent[4] + Reg }
    IN  IF Hit = {} THEN 3 ELSE Min(Hit)

\* The value of the loop variable Region after the ID == 4 loop of
\* ValidationCheck for one candidate: the first of 0, 1, 2 that matches,
\* 3 when none does.
RegionOf(Buffer, Slot) ==
    LET Hit == { Reg \in 0..2 : Byte(Buffer, Slot * SlotSize + 4) = SlotIdent[4] + Reg }
    IN  IF Hit = {} THEN 3 ELSE Min(Hit)

\* Count after the ID loop of ValidationCheck for one candidate.
ValidationCount(Buffer, Slot) ==
    Cardinality({ ID \in 0..7 :
        IF ID = 4 THEN RegionOf(Buffer, Slot) < 3
        ELSE Byte(Buffer, Slot * SlotSize + ID) = SlotIdent[ID] })

\* IDCount after the ID loop of FetchSlot for one candidate.
FetchIDCount(Buffer, Slot, Reg) ==
    Cardinality({ ID \in 0..7 :
        Byte(Buffer, Slot * SlotSize + ID) = SlotIdent[ID] + (IF ID = 4 THEN Reg ELSE 0) })

\* SavSlotExist[Slot] after the first loop of FetchSlot.
SavSlotExist(Buffer, Slot, SavSlot, Reg) ==
    /\ FetchIDCount(Buffer, Slot, Reg) = 8
    /\ Byte(Buffer, Slot * SlotSize + 12) + Byte(Buffer, Slot * SlotSize + 13) = SavSlot

\* SavCount[Slot] after the first loop of FetchSlot.
SavCount(Buffer, Slot, SavSlot, Reg) ==
    IF SavSlotExist(Buffer, Slot, SavSlot, Reg)
    THEN ReadLE(Buffer, Slot * SlotSize + 8, 4)
    ELSE 0

\* The second loop of FetchSlot with SavCount[Slot] >= HighestCount.
RECURSIVE FetchLoop_LastWins(_, _, _, _, _, _)
FetchLoop_LastWins(Buffer, Slot, SavSlot, Reg, HighestCount, LastSavedSlot) ==
    IF Slot >= 5 THEN LastSavedSlot
    ELSE IF SavSlotExist(Buffer, Slot, SavSlot, Reg)
            /\ SavCount(Buffer, Slot, SavSlot, Reg) >= HighestCount
         THEN FetchLoop_LastWins(Buffer, Slot + 1, SavSlot, Reg,
                                 SavCount(Buffer, Slot, SavSlot, Reg), Slot)
         ELSE FetchLoop_LastWins(Buffer, Slot + 1, SavSlot, Reg, HighestCount, LastSavedSlot)

\* The second loop of FetchSlot, from candidate Slot on, with the running
\* HighestCount and LastSavedSlot.
RECURSIVE FetchLoop(_, _, _, _, _, _)
FetchLoop(Buffer, Slot, SavSlot, Reg, HighestCount, LastSavedSlot) ==
    IF Slot >= 5 THEN LastSavedSlot
    ELSE IF SavSlotExist(Buffer, Slot, SavSlot, Reg)
            /\ SavCount(Buffer, Slot, SavSlot, Reg) > HighestCount
         THEN FetchLoop(Buffer, Slot + 1, SavSlot, Reg,
                        SavCount(Buffer, Slot, SavSlot, Reg), Slot)
         ELSE FetchLoop(Buffer, Slot + 1, SavSlot, Reg, HighestCount, LastSavedSlot)

\* SAV::FetchSlot(SavSlot, Reg)
FetchSlot(hasData, Buffer, SavSlot, Reg) ==
    IF ~hasData THEN -1
    ELSE FetchLoop(Buffer, 0, SavSlot, Reg, 0, -1)

NoSlots == [Idx \in 0..2 |-> -1]

\* S2NDSCore SAV::ValidationCheck(): the result, the region and the slot map.
NDS_ValidationCheck(hasData, Buffer) ==
    LET Found == { Slot \in 0..4 : ValidationCount(Buffer, Slot) = 8 }
    IN  IF ~hasData \/ Found = {}
        THEN [Res |-> FALSE, Region |-> "UNKNOWN", Slots |-> NoSlots]
        ELSE LET Reg == RegionOf(Buffer, Min(Found))
             IN  [Res    |-> TRUE,
                  Region |-> IF Reg = 2 THEN "JPN" ELSE "INT",
                  Slots  |-> [Idx \in 0..2 |-> FetchSlot(hasData, Buffer, Idx, Reg)]]

(***************************************************************************)
(* GBA: validation.                                                        *)
(***************************************************************************)
\* GBAIdent[Idx] as the loop for (Idx = 0; Idx < 8; Idx++) reads it: index 7
\* is past the end of the 7-element array, the read is undefined and yields
\* whatever byte Past the build placed there.
GBAIdentAt(Idx, Past) == IF Idx < 7 THEN GBAIdent[Idx] ELSE Past

\* S2GBACore SAV::ValidationCheck(): the result, the buffer after the
\* language check, and whether the check set ChangesMade.
GBA_ValidationCheck(hasData, Buffer, Past) ==
    IF ~hasData THEN [Res |-> FALSE, Data |-> Buffer, Changed |-> FALSE]
    ELSE [Res     |-> \A Idx \in 0..7 : Byte(Buffer, Idx) = GBAIdentAt(Idx, Past),
          Data    |-> IF Byte(Buffer, 10) > 5 THEN [Buffer EXCEPT ![10] = 0] ELSE Buffer,
          Changed |-> Byte(Buffer, 10) > 5]

(***************************************************************************)
(* Finish and the checksum fixers.  Each returns the buffer it leaves and  *)
(* what it reported; a fixer that wrote has gone through SAV::Write and    *)
(* has therefore set ChangesMade.                                          *)
(***************************************************************************)
\* Slot::FixChecksum() with the checksum's own word left in the sum.
NDS_FixChecksum_OwnWordSummed(Buffer, Offs) ==
    LET CurCHKS == ReadLE(Buffer, Offs + 40, 2)
        Skip    == { (Offs + 18) \div 2 }
        Calced  == NDS_Calc(Buffer, (Offs + 16) \div 2, (Offs + SlotSize) \div 2, Skip)
    IN  IF Calced # CurCHKS
        THEN [Data |-> WriteLE(Buffer, Offs + 40, Calced, 2), Ret |-> TRUE]
        ELSE [Data |-> Buffer, Ret |-> FALSE]

\* S2NDSCore Slot::FixChecksum() of the slot at region offset Offs.
NDS_FixChecksum(Buffer, Offs) ==
    LET CurCHKS == ReadLE(Buffer, Offs + 40, 2)
        Skip    == { (Offs + 18) \div 2, (Offs + 40) \div 2 }
        Calced  == NDS_Calc(Buffer, (Offs + 16) \div 2, (Offs + SlotSize) \div 2, Skip)
    IN  IF Calced # CurCHKS
        THEN [Data |-> WriteLE(Buffer, Offs + 40, Calced, 2), Ret |-> TRUE]
        ELSE [Data |-> Buffer, Ret |-> FALSE]

\* S2NDSCore SAV::SlotExist(Slot)
NDS_SlotExist(valid, slots, Slot) ==
    IF Slot > 2 \/ ~valid THEN FALSE ELSE slots[Slot] # -1

NotCalled == [Slot \in 0..4 |-> "none"]

\* The loop of Finish() fixing the checksum of region Slot for each of the
\* slots 0..2, mapped or not.
RECURSIVE NDS_FinishLoop_Unmapped(_, _, _, _, _)
NDS_FinishLoop_Unmapped(Buffer, valid, slots, Slot, Rets) ==
    IF Slot >= 3 THEN [Data |-> Buffer, Rets |-> Rets]
    ELSE LET Fix == NDS_FixChecksum(Buffer, Slot * SlotSize)
         IN  NDS_FinishLoop_Unmapped(Fix.Data, valid, slots, Slot + 1,
                                     [Rets EXCEPT ![Slot] = IF Fix.Ret THEN "fixed" ELSE "kept"])

\* The loop of S2NDSCore SAV::Finish() from logical slot Slot on; Rets
\* collects what each FixChecksum returned.
RECURSIVE NDS_FinishLoop(_, _, _, _, _)
NDS_FinishLoop(Buffer, valid, slots, Slot, Rets) ==
    IF Slot >= 3 THEN [Data |-> Buffer, Rets |-> Rets]
    ELSE IF NDS_SlotExist(valid, slots, Slot)
         THEN LET Fix == NDS_FixChecksum(Buffer, slots[Slot] * SlotSize)
              IN  NDS_FinishLoop(Fix.Data, valid, slots, Slot + 1,
                                 [Rets EXCEPT ![Slot] = IF Fix.Ret THEN "fixed" ELSE "kept"])
         ELSE NDS_FinishLoop(Buffer, valid, slots, Slot + 1, Rets)

\* S2NDSCore SAV::Finish()
NDS_Finish(Buffer, valid, slots) ==
    IF ~valid THEN [Data |-> Buffer, Rets |-> NotCalled]
    ELSE NDS_FinishLoop(Buffer, valid, slots, 0, NotCalled)

\* Slot::FixChecksum() writing the checksum without comparing it first.
GBA_FixChecksum_Always(Buffer, Offs) ==
    LET Calced == GBA_Calc(Buffer, Offs \div 2, (Offs + 4094) \div 2, FALSE)
    IN  [Data |-> WriteLE(Buffer, Offs + 4094, Calced, 2), Ret |-> TRUE]

\* S2GBACore Slot::FixChecksum() of the slot at offset Offs.
GBA_FixChecksum(Buffer, Offs) ==
    LET CurCHKS == ReadLE(Buffer, Offs + 4094, 2)
        Calced  == GBA_Calc(Buffer, Offs \div 2, (Offs + 4094) \div 2, FALSE)
    IN  IF Calced # CurCHKS
        THEN [Data |-> WriteLE(Buffer, Offs + 4094, Calced, 2), Ret |-> TRUE]
        ELSE [Data |-> Buffer, Ret |-> FALSE]

\* Settings::UpdateChecksum() calling Calc with SettingsChks = false.
GBA_UpdateChecksum_NotSettings(Buffer) ==
    LET CurCHKS == ReadLE(Buffer, 14, 2)
        Calced  == GBA_Calc(Buffer, 0, 24 \div 2, FALSE)
    IN  IF Calced # CurCHKS
        THEN [Data |-> WriteLE(Buffer, 14, Calced, 2), Ret |-> TRUE]
        ELSE [Data |-> Buffer, Ret |-> FALSE]

\* S2GBACore Settings::UpdateChecksum(): Ret tells whether it wrote.
GBA_UpdateChecksum(Buffer) ==
    LET CurCHKS == ReadLE(Buffer, 14, 2)
        Calced  == GBA_Calc(Buffer, 0, 24 \div 2, TRUE)
    IN  IF Calced # CurCHKS
        THEN [Data |-> WriteLE(Buffer, 14, Calced, 2), Ret |-> TRUE]
        ELSE [Data |-> Buffer, Ret |-> FALSE]

\* S2GBACore SAV::SlotExist(Slot)
GBA_SlotExist(Buffer, Slot) ==
    IF Slot < 1 \/ Slot > 4 THEN FALSE
    ELSE \E Idx \in 0..9 : Byte(Buffer, Slot * SlotSize + Idx) # 0

\* The slot loop of S2GBACore SAV::Finish() from slot Slt on.
RECURSIVE GBA_FinishLoop(_, _, _)
GBA_FinishLoop(Buffer, Slt, Rets) ==
    IF Slt >= 5 THEN [Data |-> Buffer, Rets |-> Rets]
    ELSE IF GBA_SlotExist(Buffer, Slt)
         THEN LET Fix == GBA_FixChecksum(Buffer, Slt * SlotSize)
              IN  GBA_FinishLoop(Fix.Data, Slt + 1,
                                 [Rets EXCEPT ![Slt] = IF Fix.Ret THEN "fixed" ELSE "kept"])
         ELSE GBA_FinishLoop(Buffer, Slt + 1, Rets)

\* S2GBACore SAV::Finish(): the slots 1..4, then the settings, whose
\* outcome is kept under index 0 of Rets.
GBA_Finish(Buffer, valid) ==
    IF ~valid THEN [Data |-> Buffer, Rets |-> NotCalled]
    ELSE LET AfterSlots == GBA_FinishLoop(Buffer, 1, NotCalled)
             Upd        == GBA_UpdateChecksum(AfterSlots.Data)
         IN  [Data |-> Upd.Data,
              Rets |-> [AfterSlots.Rets EXCEPT ![0] = IF Upd.Ret THEN "fixed" ELSE "kept"]]

(***************************************************************************)
(* Bit helpers for the bit and nibble writers.                             *)
(***************************************************************************)
RECURSIVE Pow2(_)
Pow2(n) == IF n = 0 THEN 1 ELSE 2 * Pow2(n - 1)

BitOf(b, BitIndex) == (b \div Pow2(BitIndex)) % 2

\* SavData[Offs] &= ~(1 << BitIndex); SavData[Offs] |= (IsSet ? 1 : 0) << BitIndex;
SetBit(b, BitIndex, IsSet) ==
    (b - BitOf(b, BitIndex) * Pow2(BitIndex)) + (IF IsSet THEN Pow2(BitIndex) ELSE 0)

\* First: (b & 0xF0) | (Data & 0xF); otherwise (b & 0x0F) | (Data << 4), as a byte.
SetBits(b, First, Data) ==
    IF First THEN (b \div 16) * 16 + (Data % 16)
    ELSE (b % 16) + ((Data * 16) % 256)

\* The loop of S2NDSCore SAV::WriteString: Str[Idx] while inside the string,
\* 0 after it.  Str is a sequence of bytes.
RECURSIVE NDS_WriteStringLoop(_, _, _, _, _)
NDS_WriteStringLoop(Buffer, Offs, Length, Str, Idx) ==
    IF Idx >= Length THEN Buffer
    ELSE NDS_WriteStringLoop(
            [Buffer EXCEPT ![Offs + Idx] = IF Idx < Len(Str) THEN Str[Idx + 1] ELSE 0],
            Offs, Length, Str, Idx + 1)

\* S2GBACore::EncodingTable: each glyph as the bytes of its UTF-8 std::string,
\* entry EncodingIdx of the source at position EncodingIdx + 1.
EncodingTable ==
    <<
       << 194, 169 >>, << 197, 147 >>, << 194, 161 >>, << 194, 191 >>,
       << 195, 128 >>, << 195, 129 >>, << 195, 130 >>, << 195, 131 >>,
       << 195, 132 >>, << 195, 133 >>, << 195, 134 >>, << 195, 135 >>,
       << 195, 136 >>, << 195, 137 >>, << 195, 138 >>, << 195, 139 >>,
       << 195, 140 >>, << 195, 141 >>, << 195, 142 >>, << 195, 143 >>,
       << 195, 145 >>, << 195, 146 >>, << 195, 147 >>, << 195, 148 >>,
       << 195, 149 >>, << 195, 150 >>, << 195, 152 >>, << 195, 153 >>,
       << 195, 154 >>, << 195, 156 >>, << 195, 159 >>, << 195, 160 >>,
       << 195, 161 >>, << 195, 162 >>, << 195, 163 >>, << 195, 164 >>,
       << 195, 165 >>, << 195, 166 >>, << 195, 167 >>, << 195, 168 >>,
       << 195, 169 >>, << 195, 170 >>, << 195, 171 >>, << 195, 172 >>,
       << 195, 173 >>, << 195, 174 >>, << 195, 175 >>, << 195, 177 >>,
       << 195, 178 >>, << 195, 179 >>, << 195, 180 >>, << 195, 181 >>,
       << 195, 182 >>, << 195, 184 >>, << 195, 185 >>, << 195, 186 >>,
       << 195, 187 >>, << 195, 188 >>, << 194, 186 >>, << 194, 170 >>,
       << 226, 128, 166 >>, << 226, 132, 162 >>, << >>, << 194, 174 >>,
       << >>
    >>

\* The inner comparison of S2GBACore SAV::WriteString: glyph EncodingIdx is
\* non-empty and all of it is found in Str from (0-based) StrIdx on.
EncodingMatch(Str, StrIdx, EncodingIdx) ==
    LET Glyph == EncodingTable[EncodingIdx + 1]
    IN  /\ Len(Glyph) # 0
        /\ \A EncodingLenIdx \in 0..(Len(Glyph) - 1) :
              /\ ~(Len(Str) - 1 < StrIdx + EncodingLenIdx)
              /\ Str[StrIdx + EncodingLenIdx + 1] = Glyph[EncodingLenIdx + 1]

\* The first loop of S2GBACore SAV::WriteString, from (0-based) StrIdx on:
\* the StringBytes that would be written.
RECURSIVE GBA_StringBytes(_, _, _)
GBA_StringBytes(Str, StrIdx, StringBytes) ==
    IF StrIdx >= Len(Str) THEN StringBytes
    ELSE LET B == Str[StrIdx + 1]
             Matches == { EncodingIdx \in 0..(Len(EncodingTable) - 1) :
                            EncodingMatch(Str, StrIdx, EncodingIdx) }
         IN  IF (B >= 1 /\ B <= 9) \/ (B >= 11 /\ B <= 31) \/ B = 10
             THEN StringBytes
             ELSE IF B >= 32 /\ B < 122
             THEN GBA_StringBytes(Str, StrIdx + 1, Append(StringBytes, B))
             ELSE IF Matches # {}
             THEN GBA_StringBytes(Str, StrIdx + Len(EncodingTable[Min(Matches) + 1]),
                                  Append(StringBytes, Min(Matches) + 123))
             ELSE Append(StringBytes, 0)

\* The write loop of S2GBACore SAV::WriteString: the same as the NDS one,
\* over StringBytes.
GBA_WriteStringLoop(Buffer, Offs, Length, Str) ==
    NDS_WriteStringLoop(Buffer, Offs, Length, GBA_StringBytes(Str, 0, << >>), 0)

\* The loop of S2NDSCore SAV::ReadString from Idx on: the bytes up to the
\* first 0x0 or to Length.
RECURSIVE NDS_ReadStringLoop(_, _, _, _)
NDS_ReadStringLoop(Buffer, At, Length, Idx) ==
    IF Idx >= Length \/ Byte(Buffer, At + Idx) = 0 THEN << >>
    ELSE << Byte(Buffer, At + Idx) >> \o NDS_ReadStringLoop(Buffer, At, Length, Idx + 1)

\* S2NDSCore SAV::ReadString(Offs, Length)
NDS_ReadString(valid, Buffer, At, Length) ==
    IF ~valid THEN << >> ELSE NDS_ReadStringLoop(Buffer, At, Length, 0)

\* The loop of S2GBACore SAV::ReadString from Idx on, as the bytes of the
\* std::string: a control byte or a byte from 0xBC on ends the string, a
\* byte 0x7B..0xBB adds its glyph, any other byte is added as it is, and a
\* 0x0 ends the string after it was added.
RECURSIVE GBA_ReadStringLoop(_, _, _, _)
GBA_ReadStringLoop(Buffer, At, Length, Idx) ==
    IF Idx >= Length THEN << >>
    ELSE LET B == Byte(Buffer, At + Idx)
         IN  IF (B >= 1 /\ B <= 9) \/ (B >= 11 /\ B <= 31) \/ B >= 188 \/ B = 10
             THEN << >>
             ELSE IF B >= 123 /\ B <= 187
             THEN EncodingTable[B - 123 + 1] \o GBA_ReadStringLoop(Buffer, At, Length, Idx + 1)
             ELSE IF B = 0 THEN << 0 >>
             ELSE << B >> \o GBA_ReadStringLoop(Buffer, At, Length, Idx + 1)

\* S2GBACore SAV::ReadString(Offs, Length)
GBA_ReadString(valid, Buffer, At, Length) ==
    IF ~valid THEN << >> ELSE GBA_ReadStringLoop(Buffer, At, Length, 0)

(***************************************************************************)
(* GBA house items.  The item setters go through SAV::Read and SAV::Write, *)
(* which do nothing on an invalid container; the moves of AddItem and      *)
(* RemoveItem are memcpy calls on the raw buffer.                          *)
(***************************************************************************)
\* S2GBACore SAV::Read<uint8_t>(Offs)
GBA_Read8(valid, Buffer, Offs) == IF ~valid THEN 0 ELSE Byte(Buffer, Offs)

\* S2GBACore SAV::Write<uint8_t>(Offs, Data): the buffer it leaves.
GBA_Write8(valid, Buffer, Offs, Data) ==
    IF ~valid THEN Buffer ELSE WriteLE(Buffer, Offs, Data, 1)

\* memcpy of Size bytes from Src into a temporary and from there to Dst.
MemCopy(Buffer, Dst, Src, Size) ==
    [o \in DOMAIN Buffer |->
        IF Dst <= o /\ o < Dst + Size THEN Byte(Buffer, Src + (o - Dst)) ELSE Buffer[o]]

\* The six setters AddItem calls for item CT, each writing at
\* Offs + field + min(Count() - 1, CT) * 6 unless Count() is 0.
RECURSIVE GBA_SetItemFields(_, _, _, _, _, _)
GBA_SetItemFields(valid, Buffer, Offs, CT, Fields, Idx) ==
    IF Idx > 6 THEN Buffer
    ELSE LET Count == GBA_Read8(valid, Buffer, Offs)
             At    == Offs + Idx + Min({(Count - 1) % 256, CT}) * 6
         IN  GBA_SetItemFields(valid,
                 IF Count = 0 THEN Buffer ELSE GBA_Write8(valid, Buffer, At, Fields[Idx]),
                 Offs, CT, Fields, Idx + 1)

\* HouseItem::AddItem on the item area at Offs; Fields are ID, Flag,
\* UseCount, XPos, YPos and the byte of the direction.
GBA_AddItem(valid, Buffer, Offs, Fields) ==
    IF GBA_Read8(valid, Buffer, Offs) = 12 THEN [Data |-> Buffer, Ret |-> FALSE]
    ELSE LET CT      == GBA_Read8(valid, Buffer, Offs)
             Counted == GBA_Write8(valid, Buffer, Offs, CT + 1)
             Count   == GBA_Read8(valid, Counted, Offs)
             Moved   == MemCopy(Counted, Offs + 1 + Count * 6, Offs + 1 + CT * 6,
                                3878 - Count * 6)
         IN  [Data |-> GBA_SetItemFields(valid, Moved, Offs, CT, Fields, 1), Ret |-> TRUE]

\* HouseItem::RemoveItem(Index) on the item area at Offs.
GBA_RemoveItem(valid, Buffer, Offs, Index) ==
    IF GBA_Read8(valid, Buffer, Offs) = 0 \/ GBA_Read8(valid, Buffer, Offs) - 1 < Index
    THEN [Data |-> Buffer, Ret |-> FALSE]
    ELSE LET Counted == GBA_Write8(valid, Buffer, Offs, GBA_Read8(valid, Buffer, Offs) - 1)
             Count   == GBA_Read8(valid, Counted, Offs)
         IN  [Data |-> MemCopy(Counted, Offs + 1 + Index * 6, Offs + 1 + (Index + 1) * 6,
                               3878 - Count * 6),
              Ret |-> TRUE]

(***************************************************************************)
(* Field accessors.  A setter is a chain of SAV::Write and SAV::WriteBits  *)
(* calls; each link is handed the container as S = [Data, Changed], the    *)
(* buffer and the ChangesMade flag, and returns what it leaves of both.    *)
(* valid stands for GetValid() && GetData().                               *)
(***************************************************************************)
\* SAV::Read<T>(Offs), sizeof(T) = Size
SAV_Read(valid, Buffer, At, Size) == IF ~valid THEN 0 ELSE ReadLE(Buffer, At, Size)

\* SAV::Write<T>(Offs, Data), sizeof(T) = Size; Data already has T's width.
SAV_Write(valid, S, At, Data, Size) ==
    IF ~valid THEN S ELSE [Data |-> WriteLE(S.Data, At, Data, Size), Changed |-> TRUE]

\* SAV::ReadBits(Offs, First)
SAV_ReadBits(valid, Buffer, At, First) ==
    IF ~valid THEN 0
    ELSE IF First THEN Byte(Buffer, At) % 16 ELSE Byte(Buffer, At) \div 16

\* SAV::WriteBits(Offs, First, Data); Data is what the argument expression
\* yields, taken as a uint8_t.
SAV_WriteBits(valid, S, At, First, Data) ==
    IF ~valid \/ (Data % 256) > 15 THEN S
    ELSE [Data |-> [S.Data EXCEPT ![At] = SetBits(@, First, Data % 256)], Changed |-> TRUE]

\* S2GBACore::Settings::SFXLevels and MusicLevels, level V at position V + 1.
SFXLevels == << 0, 12, 24, 36, 48, 60, 72, 84, 96, 108, 128 >>
MusicLevels == << 0, 25, 50, 75, 100, 125, 150, 175, 200, 225, 255 >>

\* S2GBACore Settings::SFX() and Settings::SFX(V)
GBA_Settings_SFX(valid, Buffer) == SAV_Read(valid, Buffer, 8, 1)
GBA_Settings_SetSFX(valid, S, V) ==
    IF V > 10 THEN S ELSE SAV_Write(valid, S, 8, SFXLevels[V + 1], 1)

\* S2GBACore Settings::Music() and Settings::Music(V)
GBA_Settings_Music(valid, Buffer) == SAV_Read(valid, Buffer, 9, 1)
GBA_Settings_SetMusic(valid, S, V) ==
    IF V > 10 THEN S ELSE SAV_Write(valid, S, 9, MusicLevels[V + 1], 1)

\* std::min<T>(Max, V)
StdMin(Max, V) == IF V < Max THEN V ELSE Max

\* S2GBACore Slot::Simoleons() and Slot::Simoleons(V): a uint32_t at 0x5
\* whose lowest byte is not part of the amount; 999999 << 8 fits a uint32_t.
GBA_Slot_Simoleons(valid, Buffer, At) == SAV_Read(valid, Buffer, At + 5, 4) \div 256
GBA_Slot_SetSimoleons(valid, S, At, V) ==
    SAV_Write(valid, S, At + 5, StdMin(999999, V) * 256, 4)

\* S2GBACore Slot::Ratings() and Slot::Ratings(V)
GBA_Slot_Ratings(valid, Buffer, At) == SAV_Read(valid, Buffer, At + 10, 2)
GBA_Slot_SetRatings(valid, S, At, V) == SAV_Write(valid, S, At + 10, StdMin(9999, V), 2)

\* The getter shared by the colors packed next to a style: the lowest bit of
\* the upper nibble is the color's bit 4, the lower nibble its bits 0..3.
PackedColor(valid, Buffer, At) ==
    (IF SAV_ReadBits(valid, Buffer, At, FALSE) % 2 = 1 THEN 16 ELSE 0)
    + SAV_ReadBits(valid, Buffer, At, TRUE)

\* S2GBACore Slot::Hairstyle() and Slot::Shirtcolor3(), both in byte 0x1D
GBA_Slot_Hairstyle(valid, Buffer, At) == SAV_ReadBits(valid, Buffer, At + 29, FALSE) \div 2
GBA_Slot_Shirtcolor3(valid, Buffer, At) == PackedColor(valid, Buffer, At + 29)

\* S2GBACore Slot::Hairstyle(V)
GBA_Slot_SetHairstyle(valid, S, At, V) ==
    IF V > 7 THEN S
    ELSE SAV_WriteBits(valid, S, At + 29, FALSE,
                       V * 2 + (IF GBA_Slot_Shirtcolor3(valid, S.Data, At) > 15 THEN 1 ELSE 0))

\* S2GBACore Slot::Shirtcolor3(V): the lower nibble, then the hairstyle's
\* nibble again with the color's bit 4.
GBA_Slot_SetShirtcolor3(valid, S, At, V) ==
    LET Low == SAV_WriteBits(valid, S, At + 29, TRUE, IF V > 15 THEN V - 16 ELSE V)
    IN  SAV_WriteBits(valid, Low, At + 29, FALSE,
                      GBA_Slot_Hairstyle(valid, Low.Data, At) * 2 + (IF V > 15 THEN 1 ELSE 0))

\* S2GBACore Slot::Tan() and Slot::Shirtcolor2(), both in byte 0x1E
GBA_Slot_Tan(valid, Buffer, At) == SAV_ReadBits(valid, Buffer, At + 30, FALSE) \div 2
GBA_Slot_Shirtcolor2(valid, Buffer, At) == PackedColor(valid, Buffer, At + 30)

\* S2GBACore Slot::Tan(V)
GBA_Slot_SetTan(valid, S, At, V) ==
    IF V > 5 THEN S
    ELSE SAV_WriteBits(valid, S, At + 30, FALSE,
                       V * 2 + (IF GBA_Slot_Shirtcolor2(valid, S.Data, At) > 15 THEN 1 ELSE 0))

\* S2GBACore Slot::Shirtcolor2(V): the lower nibble, then the upper nibble
\* from ReadBits(Offs + 0x1E, false) * 2, the whole nibble doubled.
GBA_Slot_SetShirtcolor2(valid, S, At, V) ==
    LET Low == SAV_WriteBits(valid, S, At + 30, TRUE, IF V > 15 THEN V - 16 ELSE V)
    IN  SAV_WriteBits(valid, Low, At + 30, FALSE,
                      SAV_ReadBits(valid, Low.Data, At + 30, FALSE) * 2
                      + (IF V > 15 THEN 1 ELSE 0))

\* S2GBACore Slot::Pants() and Slot::Pantscolor(), both in byte 0x21
GBA_Slot_Pants(valid, Buffer, At) == SAV_ReadBits(valid, Buffer, At + 33, FALSE) \div 2
GBA_Slot_Pantscolor(valid, Buffer, At) == PackedColor(valid, Buffer, At + 33)

\* S2GBACore Slot::Pants(V)
GBA_Slot_SetPants(valid, S, At, V) ==
    IF V > 1 THEN S
    ELSE SAV_WriteBits(valid, S, At + 33, FALSE,
                       V * 2 + (IF GBA_Slot_Pantscolor(valid, S.Data, At) > 15 THEN 1 ELSE 0))

\* S2GBACore Slot::Pantscolor(V)
GBA_Slot_SetPantscolor(valid, S, At, V) ==
    LET Low == SAV_WriteBits(valid, S, At + 33, TRUE, IF V > 15 THEN V - 16 ELSE V)
    IN  SAV_WriteBits(valid, Low, At + 33, FALSE,
                      GBA_Slot_Pants(valid, Low.Data, At) * 2 + (IF V > 15 THEN 1 ELSE 0))

\* S2GBACore Slot::Confidence() and Slot::Confidence(V)
GBA_Slot_Confidence(valid, Buffer, At) == SAV_Read(valid, Buffer, At + 34, 1)
GBA_Slot_SetConfidence(valid, S, At, V) == SAV_Write(valid, S, At + 34, StdMin(5, V), 1)

\* S2NDSCore Slot::Simoleons() and Slot::Simoleons(V)
NDS_Slot_Simoleons(valid, Buffer, At) == SAV_Read(valid, Buffer, At + 44, 4)
NDS_Slot_SetSimoleons(valid, S, At, V) == SAV_Write(valid, S, At + 44, StdMin(999999, V), 4)

\* S2NDSCore Slot::Fuelrods() and Slot::Fuelrods(V)
NDS_Slot_Fuelrods(valid, Buffer, At) == SAV_Read(valid, Buffer, At + 188, 1)
NDS_Slot_SetFuelrods(valid, S, At, V) == SAV_Write(valid, S, At + 188, StdMin(250, V), 1)

\* S2NDSCore Slot::Creativity() and Slot::Creativity(V)
NDS_Slot_Creativity(valid, Buffer, At) == SAV_Read(valid, Buffer, At + 223, 1)
NDS_Slot_SetCreativity(valid, S, At, V) == SAV_Write(valid, S, At + 223, StdMin(10, V), 1)

\* S2NDSCore Slot::PocketCount()
NDS_Slot_PocketCount(valid, Buffer, At) == SAV_Read(valid, Buffer, At + 207, 1)

\* Slot::PocketCount(V) writing to 0xC, the slot claim, instead of 0xCF.
NDS_Slot_SetPocketCount_AtClaim(valid, S, At, V) ==
    SAV_Write(valid, S, At + 12, StdMin(6, V), 1)

\* S2NDSCore Slot::PocketCount(V)
NDS_Slot_SetPocketCount(valid, S, At, V) == SAV_Write(valid, S, At + 207, StdMin(6, V), 1)

\* S2NDSCore Slot::PocketID(Index): a uint16_t
NDS_Slot_PocketID(valid, Buffer, At, Index) ==
    SAV_Read(valid, Buffer, At + 195 + StdMin(6, Index) * 2, 2)

\* S2NDSCore Slot::PocketID(Index, V): Write<uint8_t> of the uint16_t V,
\* then the pocket count from the ids that are not 0.
NDS_Slot_SetPocketID(valid, S, At, Index, V) ==
    LET Id == SAV_Write(valid, S, At + 195 + StdMin(6, Index) * 2, V % 256, 1)
        Count == Cardinality({ Idx \in 0..5 : NDS_Slot_PocketID(valid, Id.Data, At, Idx) # 0 })
    IN  NDS_Slot_SetPocketCount(valid, Id, At, Count)

\* The setter of field f called with V (and Index, for the pocket ids) on
\* the Settings object or on the Slot object whose Offs is At.
FieldSet(c, f, valid, S, At, Index, V) ==
    IF c = "NDS"
    THEN CASE f = "Simoleons"   -> NDS_Slot_SetSimoleons(valid, S, At, V)
           [] f = "Fuelrods"    -> NDS_Slot_SetFuelrods(valid, S, At, V)
           [] f = "Creativity"  -> NDS_Slot_SetCreativity(valid, S, At, V)
           [] f = "PocketCount" -> NDS_Slot_SetPocketCount(valid, S, At, V)
           [] f = "PocketID"    -> NDS_Slot_SetPocketID(valid, S, At, Index, V)
    ELSE CASE f = "SFX"         -> GBA_Settings_SetSFX(valid, S, V)
           [] f = "Music"       -> GBA_Settings_SetMusic(valid, S, V)
           [] f = "Simoleons"   -> GBA_Slot_SetSimoleons(valid, S, At, V)
           [] f = "Ratings"     -> GBA_Slot_SetRatings(valid, S, At, V)
           [] f = "Hairstyle"   -> GBA_Slot_SetHairstyle(valid, S, At, V)
           [] f = "Shirtcolor3" -> GBA_Slot_SetShirtcolor3(valid, S, At, V)
           [] f = "Tan"         -> GBA_Slot_SetTan(valid, S, At, V)
           [] f = "Shirtcolor2" -> GBA_Slot_SetShirtcolor2(valid, S, At, V)
           [] f = "Pants"       -> GBA_Slot_SetPants(valid, S, At, V)
           [] f = "Pantscolor"  -> GBA_Slot_SetPantscolor(valid, S, At, V)
           [] f = "Confidence"  -> GBA_Slot_SetConfidence(valid, S, At, V)

\* The getter of field f.
FieldGet(c, f, valid, Buffer, At, Index) ==
    IF c = "NDS"
    THEN CASE f = "Simoleons"   -> NDS_Slot_Simoleons(valid, Buffer, At)
           [] f = "Fuelrods"    -> NDS_Slot_Fuelrods(valid, Buffer, At)
           [] f = "Creativity"  -> NDS_Slot_Creativity(valid, Buffer, At)
           [] f = "PocketCount" -> NDS_Slot_PocketCount(valid, Buffer, At)
           [] f = "PocketID"    -> NDS_Slot_PocketID(valid, Buffer, At, Index)
    ELSE CASE f = "SFX"         -> GBA_Settings_SFX(valid, Buffer)
           [] f = "Music"       -> GBA_Settings_Music(valid, Buffer)
           [] f = "Simoleons"   -> GBA_Slot_Simoleons(valid, Buffer, At)
           [] f = "Ratings"     -> GBA_Slot_Ratings(valid, Buffer, At)
           [] f = "Hairstyle"   -> GBA_Slot_Hairstyle(valid, Buffer, At)
           [] f = "Shirtcolor3" -> GBA_Slot_Shirtcolor3(valid, Buffer, At)
           [] f = "Tan"         -> GBA_Slot_Tan(valid, Buffer, At)
           [] f = "Shirtcolor2" -> GBA_Slot_Shirtcolor2(valid, Buffer, At)
           [] f = "Pants"       -> GBA_Slot_Pants(valid, Buffer, At)
           [] f = "Pantscolor"  -> GBA_Slot_Pantscolor(valid, Buffer, At)
           [] f = "Confidence"  -> GBA_Slot_Confidence(valid, Buffer, At)

(***************************************************************************)
(* The buffers the model loads.  A buffer is described region by region    *)
(* and built over the tracked offsets; stored checksums are either left 0  *)
(* (never the right value: the checksum of an all-zero range is 0xFF00)    *)
(* or set to the value the engine computes.                                *)
(***************************************************************************)
\* Region-relative offsets tracked in an NDS buffer: identifier 0x0..0x7,
\* save counter 0x8..0xB, slot claim 0xC, 0xD, first summed word 0x10, the
\* skipped word 0x12, checksum 0x28, Simoleons 0x2C..0x2F, name 0x30..0x31,
\* Creativity 0xDF, and the last word of the region.
NDSRel == (0..13) \cup {16, 17, 18, 19, 40, 41} \cup (44..49) \cup {223, 4094, 4095}
NDSOffs == { Slot * SlotSize + Rel : Slot \in 0..4, Rel \in NDSRel }

\* Offsets tracked in a GBA buffer: identifier 0x0..0x6 and 0x7, SFX, music
\* and language 0x8..0xA, settings checksum 0xE, 0x10, the last settings
\* word 0x16 and the first word after it; per slot 1..4 the ten existence
\* bytes, the last summed word and the checksum 0xFFE.
GBAHeadRel == (0..10) \cup {14, 15, 16, 17, 22, 23, 24, 25}
GBASlotRel == (0..9) \cup {4092, 4093, 4094, 4095}

\* The slot whose house items are edited, and what is tracked of its house
\* item area: the item count 0xD6, the items 0..2 (6 bytes each from 0xD7)
\* and the tail of the area the item moves shift, 0xFEB..0xFFB.
ItemSlot == 1
GBAItemRel == (214..232) \cup (4075..4091)
GBAOffs ==
    GBAHeadRel \cup { Slt * SlotSize + Rel : Slt \in 1..4, Rel \in GBASlotRel }
               \cup { ItemSlot * SlotSize + Rel : Rel \in GBAItemRel }

AllZero(Offs) == [o \in Offs |-> 0]

Blank == [kind |-> "blank"]

\* An NDS region carrying the identifier with region code v, claiming slot
\* c + d with save counter n, checksum left 0 or set right.
NDSSlotDesc(v, c, d, n, chk) ==
    [kind |-> "slot", v |-> v, c |-> c, d |-> d, n |-> n, chk |-> chk]

\* An NDS region whose identifier is wrong in byte k (by the amount by).
NDSBadDesc(k, by) == [kind |-> "bad", k |-> k, by |-> by]

NDSRegionByte(D, Rel) ==
    IF D.kind = "blank" THEN 0
    ELSE IF D.kind = "bad"
         THEN IF Rel < 8 THEN SlotIdent[Rel] + (IF Rel = D.k THEN D.by ELSE 0)
              ELSE IF Rel = 8 THEN 1 ELSE 0
    ELSE IF Rel < 8 THEN SlotIdent[Rel] + (IF Rel = 4 THEN D.v ELSE 0)
    ELSE IF Rel = 8  THEN D.n
    ELSE IF Rel = 12 THEN D.c
    ELSE IF Rel = 13 THEN D.d
    ELSE IF Rel = 44 THEN 255
    ELSE 0

RECURSIVE NDSSetChecksums(_, _, _)
NDSSetChecksums(Buffer, Descs, Slot) ==
    IF Slot >= 5 THEN Buffer
    ELSE NDSSetChecksums(
            IF Descs[Slot].kind = "slot" /\ Descs[Slot].chk = "good"
            THEN NDS_FixChecksum(Buffer, Slot * SlotSize).Data ELSE Buffer,
            Descs, Slot + 1)

NDSBuffer(Descs) ==
    NDSSetChecksums([o \in NDSOffs |-> NDSRegionByte(Descs[o \div SlotSize], o % SlotSize)],
                    Descs, 0)

\* Region descriptions that vary in the regions of Vary and are blank elsewhere.
NDSLayouts(Vary, Ds) ==
    { [Slot \in 0..4 |-> IF Slot \in Vary THEN f[Slot] ELSE Blank] : f \in [Vary -> Ds] }

\* A GBA buffer: identifier with byte k off by `by` (k = 7: the byte after
\* the identifier), language byte lang, the slots of Present non-empty,
\* checksums left 0 or set right.
GBADesc(k, by, lang, Present, chk) ==
    [k |-> k, by |-> by, lang |-> lang, Present |-> Present, chk |-> chk]

GBARawByte(D, o) ==
    IF o < 7 THEN GBAIdent[o] + (IF o = D.k THEN D.by ELSE 0)
    ELSE IF o = 7 THEN (IF D.k = 7 THEN D.by ELSE 0)
    ELSE IF o = 10 THEN D.lang
    ELSE IF o >= SlotSize /\ o % SlotSize = 0 /\ (o \div SlotSize) \in D.Present THEN 1
    ELSE IF o >= SlotSize /\ o % SlotSize = 4092 /\ (o \div SlotSize) \in D.Present THEN 255
    ELSE 0

GBABuffer(D) ==
    LET Raw == [o \in GBAOffs |-> GBARawByte(D, o)]
    IN  IF D.chk = "good"
        THEN GBA_UpdateChecksum(GBA_FinishLoop(Raw, 1, NotCalled).Data).Data
        ELSE Raw

(***************************************************************************)
(* Inputs.                                                                 *)
(***************************************************************************)
Offs(c) == IF c = "NDS" THEN NDSOffs ELSE GBAOffs

\* SavSize == 0x40000 || SavSize == 0x80000, resp. 0x10000 || 0x20000
Whitelisted(c, Size) ==
    IF c = "NDS" THEN Size = NDSSmall \/ Size = NDSLarge
    ELSE Size = GBASmall \/ Size = GBALarge

\* The sizes tried: the two whitelisted ones and one byte short of the small one.
Sizes(c) ==
    IF c = "NDS" THEN {NDSSmall - 1, NDSSmall, NDSLarge}
    ELSE {GBASmall - 1, GBASmall, GBALarge}

\* What the build may have placed after GBAIdent[6].
PastBytes(c) == IF c = "GBA" THEN {0, 53} ELSE {0}

Counts == 0..MaxCount

\* Lifecycle buffers.  NDS: region 0 is blank, wrongly identified, or claims
\* slot 0 with any counter; region 4 is blank or claims slot 0 or 1 with
\* counter 1.  GBA: no slot, or slots 1 and 4.
SlimNDSLayouts ==
    { [Slot \in 0..4 |-> IF Slot = 0 THEN a ELSE IF Slot = 4 THEN b ELSE Blank] :
        a \in {Blank, NDSBadDesc(4, 3)}
              \cup { NDSSlotDesc(0, 0, 0, n, chk) : n \in Counts, chk \in {"zero", "good"} },
        b \in {Blank} \cup { NDSSlotDesc(0, c, 0, 1, chk) : c \in {0, 1}, chk \in {"zero", "good"} } }
SlimNDS == { NDSBuffer(L) : L \in SlimNDSLayouts }

SlimGBA ==
    { GBABuffer(GBADesc(k, 1, lang, P, chk)) :
        k \in {0, 8}, lang \in {0, 7}, P \in {{}, {1, 4}}, chk \in {"zero", "good"} }

Slim(c) == IF c = "NDS" THEN SlimNDS ELSE SlimGBA

\* Loading buffers: regions 1 and 3 vary over every region code, the
\* claimed slots 0 and 2 (1 + 1), every counter, and over identifiers wrong
\* in one byte.
RichNDSDescs ==
    {Blank, NDSBadDesc(0, 1), NDSBadDesc(4, 3), NDSBadDesc(4, -1), NDSBadDesc(7, 1)}
    \cup { NDSSlotDesc(v, cd[1], cd[2], n, "zero") :
             v \in 0..2, cd \in {<<0, 0>>, <<1, 1>>}, n \in Counts }
RichNDS == { NDSBuffer(L) : L \in NDSLayouts({1, 3}, RichNDSDescs) }

RichGBA ==
    { GBABuffer(GBADesc(k, by, lang, {1}, "zero")) :
        k \in 0..8, by \in {1, 53}, lang \in {0, 5, 6, 255} }

Rich(c) == IF c = "NDS" THEN RichNDS ELSE RichGBA

\* <<Offs, Size, Data>> of the typed writes tried.
WriteArgs(c) ==
    IF c = "NDS"
    THEN { <<44, 4, 70000>>, <<4 * SlotSize + 223, 1, 10>> }
    ELSE { <<10, 1, 3>>, <<4 * SlotSize + 5, 4, 70000 * 256>> }

\* <<Offs, BitIndex, IsSet>> of the bit writes tried; BitIndex 8 is out of range.
WriteBitArgs(c) ==
    IF c = "NDS" THEN { <<45, 0, TRUE>>, <<45, 8, TRUE>> }
    ELSE { <<SlotSize, 0, FALSE>>, <<16, 8, TRUE>> }

\* <<Offs, First, Data>> of the nibble writes tried; Data 16 is out of range.
WriteBitsArgs(c) ==
    IF c = "NDS" THEN { <<46, FALSE, 15>>, <<46, TRUE, 16>> }
    ELSE { <<17, FALSE, 15>>, <<17, TRUE, 16>> }

\* The item AddItem adds: ID, Flag, UseCount, XPos, YPos, Direction Down.
ItemFields == << 17, 1, 2, 4, 5, 3 >>

\* The item area of the edited slot: Slot::_House() at the slot's offset,
\* House::Items() 0xD6 further.
ItemOffs == ItemSlot * SlotSize + 214

\* <<Offs, Length, Str>> of the string writes tried.
WriteStringArgs(c) ==
    IF c = "NDS" THEN { <<48, 2, <<65, 66, 67>> >> }
    ELSE { <<SlotSize + 6, 2, <<195, 169, 65>> >> }

\* The strings written, as bytes: "A", "AB", "ABC", "z", and for the GBA
\* core, which has the encoding table, the glyph U+00E9 alone and before "A".
Strings(c) ==
    { << 65 >>, << 65, 66 >>, << 65, 66, 67 >>, << 122 >> }
    \cup (IF c = "GBA" THEN { << 195, 169 >>, << 195, 169, 65 >> } ELSE {})

\* <<Offs, Length, Str>> of the strings written and read back: in the NDS
\* slot name, resp. in the head of GBA slot 1, with room for 1 or 2 bytes.
StringArgs(c) ==
    { << (IF c = "NDS" THEN 48 ELSE SlotSize + 6), Length, Str >> :
        Length \in 1..2, Str \in Strings(c) }

\* The GBA slot whose fields are set.
FieldSlot == 1

\* What a field buffer tracks on top of Offs(c).  NDS, in the regions 0 and
\* 4: Fuelrods 0xBC, the pocket ids 0 (0xC3..0xC4) and 5 (0xCD..0xCE) and
\* the pocket count 0xCF.  GBA, in the slot FieldSlot: Ratings 0xA..0xB,
\* the packed bytes 0x1D, 0x1E, 0x21 and Confidence 0x22.
FieldOffs(c) ==
    IF c = "NDS"
    THEN { Slot * SlotSize + Rel : Slot \in {0, 4}, Rel \in {188, 195, 196, 205, 206, 207} }
    ELSE { FieldSlot * SlotSize + Rel : Rel \in {10, 11, 29, 30, 33, 34} }

\* Buffer with the field offsets tracked as well, as the zero bytes they are.
WithFields(c, Buffer) == [o \in (DOMAIN Buffer) \cup FieldOffs(c) |-> Byte(Buffer, o)]

\* Field buffers.  NDS: region 0 claims slot 0, region 4 is blank or claims
\* slot 1.  GBA: slots 1 and 4 exist, under a right or a wrong identifier.
FieldBufs(c) ==
    IF c = "NDS"
    THEN { WithFields(c, NDSBuffer([Slot \in 0..4 |->
                IF Slot = 0 THEN NDSSlotDesc(0, 0, 0, 1, chk) ELSE IF Slot = 4 THEN b ELSE Blank])) :
             chk \in {"zero", "good"}, b \in {Blank, NDSSlotDesc(0, 1, 0, 1, "zero")} }
    ELSE { WithFields(c, GBABuffer(GBADesc(k, 1, 0, {1, 4}, chk))) :
             k \in {0, 8}, chk \in {"zero", "good"} }

\* The fields whose accessors are modelled.
SettingsFields == {"SFX", "Music"}
Fields(c) ==
    IF c = "NDS" THEN {"Simoleons", "Fuelrods", "Creativity", "PocketCount", "PocketID"}
    ELSE SettingsFields \cup {"Simoleons", "Ratings", "Hairstyle", "Shirtcolor3", "Tan",
                              "Shirtcolor2", "Pants", "Pantscolor", "Confidence"}

\* The largest value of field f that is in its valid range.
FieldMax(c, f) ==
    CASE f \in {"SFX", "Music", "Creativity"} -> 10
      [] f = "Simoleons"   -> 999999
      [] f = "Ratings"     -> 9999
      [] f = "Fuelrods"    -> 250
      [] f = "PocketCount" -> 6
      [] f = "PocketID"    -> 65535
      [] f = "Hairstyle"   -> 7
      [] f \in {"Tan", "Confidence"} -> 5
      [] f = "Pants"       -> 1
      [] f \in {"Shirtcolor2", "Shirtcolor3", "Pantscolor"} -> 31

\* The values the setter of field f is called with: some in the valid
\* range, the maximum, and where the parameter's type has room, one above.
FieldValues(c, f) ==
    CASE f = "Simoleons"   -> {70000, 999999, 1000000}
      [] f = "PocketID"    -> {7, 4660}
      [] f = "Hairstyle"   -> {3, 7, 8}
      [] f = "Tan"         -> {3, 5, 6}
      [] f = "Shirtcolor2" -> {5, 20, 31}
      [] f \in {"Shirtcolor3", "Pantscolor"} -> {5, 20}
      [] OTHER -> {FieldMax(c, f), FieldMax(c, f) + 1}

\* The pocket ids written.
FieldIndexes(f) == IF f = "PocketID" THEN {0, 5} ELSE {0}

(***************************************************************************)
(* The session layer of the S2Editor library: SAVUtils keeps the active    *)
(* SAVType, the path of the file it was loaded from, and one container     *)
(* pointer per game.  A save handed to it is told by its size, the eight   *)
(* bytes it starts with and its language byte; every other byte is zero.   *)
(* A container is kept as its flags: Data (the buffer pointer is set),     *)
(* Valid, ChangesMade, and Finished (Finish() ran since the last change    *)
(* of the buffer).                                                         *)
(***************************************************************************)
MaxSession == 4

FileName == "sims2.sav"

NDSIdent == [ID \in 0..7 |-> << 100, 97, 116, 0, 32, 0, 0, 0 >>[ID + 1]]

Heads ==
    { [ID \in 0..7 |-> IF ID < 7 THEN GBAIdent[ID] ELSE 0],
      NDSIdent,
      [NDSIdent EXCEPT ![4] = 34],
      [ID \in 0..7 |-> 0] }

SessionSaves == [Size : {SlotSize, GBASmall, NDSSmall}, Head : Heads, Lang : {0, 9}]

SessionByte(S, At) == IF At \in 0..7 THEN S.Head[At] ELSE IF At = 10 THEN S.Lang ELSE 0

\* SAVUtils::DetectType, of a file (readable: it exists and opens) and of a
\* raw buffer (readable: Data is not null).
SAVUtils_DetectType(readable, S) ==
    IF ~readable THEN "_NONE"
    ELSE IF S.Size \in {GBASmall, GBALarge}
    THEN IF \A ID \in 0..6 : SessionByte(S, ID) = GBAIdent[ID] THEN "_GBA" ELSE "_NONE"
    ELSE IF S.Size \in {NDSSmall, NDSLarge}
    THEN IF \E Slot \in 0..4 : \A ID \in 0..7 :
                SessionByte(S, Slot * SlotSize + ID) = NDSIdent[ID]
         THEN "_NDS" ELSE "_NONE"
    ELSE "_NONE"

\* A null container pointer, and a container that holds no buffer.
NullSAV ==
    [Ptr |-> FALSE, Data |-> FALSE, Valid |-> FALSE, ChangesMade |-> FALSE,
     Finished |-> FALSE]

NoData == [NullSAV EXCEPT !.Ptr = TRUE]

\* GBASAV::ValidationCheck on the buffer S.
GBASAV_ValidationCheck(S) ==
    [Ptr |-> TRUE,
     Data |-> TRUE,
     Valid |-> \A Idx \in 0..6 : SessionByte(S, Idx) = GBAIdent[Idx],
     ChangesMade |-> SessionByte(S, 10) > 5,
     Finished |-> FALSE]

\* NDSSAV::ValidationCheck on the buffer S.
NDSSAV_ValidationCheck(S) ==
    [Ptr |-> TRUE,
     Data |-> TRUE,
     Valid |-> \E Slot \in 0..4 : \A ID \in 0..7 :
                  \/ ID = 4 /\ \E Reg \in 0..2 :
                       SessionByte(S, Slot * SlotSize + ID) = NDSIdent[ID] + Reg
                  \/ ID # 4 /\ SessionByte(S, Slot * SlotSize + ID) = NDSIdent[ID],
     ChangesMade |-> FALSE,
     Finished |-> FALSE]

\* GBASAV::GBASAV(SAVFile): whatever the file's size.
GBASAV_File(opens, S) == IF opens THEN GBASAV_ValidationCheck(S) ELSE NoData

\* GBASAV::GBASAV(Data, Size): the container takes the caller's buffer.
GBASAV_Data(S) == GBASAV_ValidationCheck(S)

\* NDSSAV::NDSSAV(SAVFile).
NDSSAV_File(opens, S) ==
    IF opens /\ S.Size \in {NDSSmall, NDSLarge} THEN NDSSAV_ValidationCheck(S) ELSE NoData

\* NDSSAV::NDSSAV(Data, Size).
NDSSAV_Data(S) ==
    IF S.Size \in {NDSSmall, NDSLarge} THEN NDSSAV_ValidationCheck(S) ELSE NoData

(***************************************************************************)
(* State machine.                                                          *)
(***************************************************************************)
NoFetch == << -1, -1, -1 >>

\* The checksum engine has not been called.
NoCalc ==
    [called |-> FALSE, Buffer |-> << >>, StartOffs |-> 0, EndOffs |-> 0, SkipOffs |-> {},
     SettingsChks |-> FALSE, NDS |-> 0, GBA |-> 0, JS |-> 0, Stored |-> 0, JSStored |-> 0,
     Slot |-> 0, Header |-> 0]

\* No field setter has been called.
NoCall == [Field |-> "none", Slot |-> 0, Index |-> 0, V |-> 0]

\* No container yet: S2xxxCore::Sav = nullptr.
Init ==
    /\ core \in {"NDS", "GBA", "S2Editor"}
    /\ SavLoaded = FALSE
    /\ HasData = FALSE
    /\ SavData = AllZero(Offs(core))
    /\ SavSize = 0
    /\ SavValid = FALSE
    /\ ChangesMade = FALSE
    /\ Slots = NoSlots
    /\ Region = "UNKNOWN"
    /\ Loaded = AllZero(Offs(core))
    /\ oob = 0
    /\ op = "none"
    /\ res = FALSE
    /\ fetched = NoFetch
    /\ fixed = NotCalled
    /\ nops = 0
    /\ streak = 0
    /\ Out = << >>
    /\ Handle = "none"
    /\ SAV = "_NONE"
    /\ SAVName = ""
    /\ GBASAV = NullSAV
    /\ NDSSAV = NullSAV
    /\ calc = NoCalc
    /\ call = NoCall

\* A fresh SAV object replaces *Sav: the members as the constructor leaves
\* them when it ends with SavData = Data (null when ~hasData), SavSize =
\* Size and, if validate, SavValid = ValidationCheck(); otherwise SavValid
\* stays false.  The object it replaces has no part in the outcome, so the
\* model constructs from the empty state only: constructing over a loaded
\* container would lead to the very same states.
NewSAV(hasData, Data, Size, validate, Past) ==
    LET N == NDS_ValidationCheck(hasData, Data)
        G == GBA_ValidationCheck(hasData, Data, Past)
        V == validate /\ (IF core = "NDS" THEN N.Res ELSE G.Res)
    IN  /\ core \in {"NDS", "GBA"}
        /\ ~SavLoaded
        /\ SavLoaded' = TRUE
        /\ HasData' = hasData
        /\ SavData' = IF validate /\ core = "GBA" THEN G.Data ELSE Data
        /\ SavSize' = Size
        /\ SavValid' = V
        /\ ChangesMade' = (validate /\ core = "GBA" /\ G.Changed)
        /\ Slots' = IF validate /\ core = "NDS" THEN N.Slots ELSE NoSlots
        /\ Region' = IF validate /\ core = "NDS" THEN N.Region ELSE "UNKNOWN"
        /\ Loaded' = Data
        /\ oob' = Past
        /\ res' = V
        /\ fetched' = NoFetch
        /\ fixed' = NotCalled
        /\ nops' = 0
        /\ streak' = 0
        /\ UNCHANGED << core, Out, SessionVars, calc, call >>

\* SaveHandler::LoadSav(File), that is SAV::SAV(File): the file is missing
\* or cannot be opened, or has Size bytes Data.
LoadSavFile(Bufs) ==
    /\ op' = "LoadSavFile"
    /\ Handle' = "none"
    /\ \/ NewSAV(FALSE, AllZero(Offs(core)), 0, FALSE, 0)
       \/ \E Size \in Sizes(core), Data \in Bufs, Past \in PastBytes(core) :
            IF Whitelisted(core, Size)
            THEN NewSAV(TRUE, Data, Size, TRUE, Past)
            ELSE NewSAV(FALSE, AllZero(Offs(core)), Size, FALSE, 0)

\* SaveHandler::LoadSav(Data, Size) with a whitelisted Size; Data may be null.
LoadSavBuffer(Bufs) ==
    /\ op' = "LoadSavBuffer"
    /\ Handle' = "null"
    /\ \E Size \in Sizes(core), Past \in PastBytes(core) :
         /\ Whitelisted(core, Size)
         /\ \/ \E Data \in Bufs : NewSAV(TRUE, Data, Size, TRUE, Past)
            \/ NewSAV(FALSE, AllZero(Offs(core)), Size, TRUE, 0)

\* SaveHandler::LoadSav(Data, Size) with any other Size: it returns false
\* and touches nothing, whatever container is active; the buffer the
\* caller passed is still the caller's.
LoadSavRefused ==
    /\ core \in {"NDS", "GBA"}
    /\ \E Size \in Sizes(core) : ~Whitelisted(core, Size)
    /\ Handle' = "held"
    /\ nops < MaxOps
    /\ nops' = nops + 1
    /\ op' = "LoadSavRefused"
    /\ res' = FALSE
    /\ streak' = 0
    /\ UNCHANGED << core, SavLoaded, HasData, SavData, SavSize, SavValid,
                    ChangesMade, Slots, Region, Loaded, oob, fetched, fixed,
                    Out, SessionVars, calc, call >>

\* Sav = std::make_unique<SAV>(Data, Size): the buffer constructor itself.
ConstructSAV(Bufs) ==
    /\ op' = "ConstructSAV"
    /\ Handle' = "null"
    /\ \E Size \in Sizes(core), Past \in PastBytes(core) :
         \/ \E Data \in Bufs : NewSAV(TRUE, Data, Size, TRUE, Past)
         \/ NewSAV(FALSE, AllZero(Offs(core)), Size, TRUE, 0)

\* What an accessor leaves alone.
AccessorFrame ==
    /\ Handle' = "none"
    /\ UNCHANGED << core, SavLoaded, HasData, SavSize, SavValid, Slots, Region,
                    Loaded, oob, res, fetched, fixed, Out, SessionVars, calc, call >>

\* An accessor ran on the current container: it wrote NewData and set
\* ChangesMade, or returned early.
Accessor(name, early, NewData) ==
    /\ SavLoaded
    /\ nops < MaxOps
    /\ nops' = nops + 1
    /\ op' = name
    /\ SavData' = IF early THEN SavData ELSE NewData
    /\ ChangesMade' = IF early THEN ChangesMade ELSE TRUE
    /\ streak' = 0
    /\ AccessorFrame

\* SAV::Write<T>(Offs, Data) without the GetValid() check.
Write_Unchecked ==
    \E a \in WriteArgs(core) :
        Accessor("Write", ~HasData, WriteLE(SavData, a[1], a[3], a[2]))

\* SAV::Write<T>(Offs, Data), sizeof(T) = Size
Write ==
    \E a \in WriteArgs(core) :
        Accessor("Write", ~SavValid \/ ~HasData, WriteLE(SavData, a[1], a[3], a[2]))

\* SAV::WriteBit(Offs, BitIndex, IsSet)
WriteBit ==
    \E a \in WriteBitArgs(core) :
        Accessor("WriteBit", ~SavValid \/ ~HasData \/ a[2] > 7,
                 [SavData EXCEPT ![a[1]] = SetBit(@, IF a[2] > 7 THEN 0 ELSE a[2], a[3])])

\* SAV::WriteBits(Offs, First, Data)
WriteBits ==
    \E a \in WriteBitsArgs(core) :
        Accessor("WriteBits", ~SavValid \/ ~HasData \/ a[3] > 15,
                 [SavData EXCEPT ![a[1]] = SetBits(@, a[2], a[3])])

\* SAV::WriteString(Offs, Length, Str)
WriteString ==
    \E a \in WriteStringArgs(core) :
        Accessor("WriteString", ~SavValid \/ ~HasData,
                 IF core = "NDS" THEN NDS_WriteStringLoop(SavData, a[1], a[2], a[3], 0)
                 ELSE GBA_WriteStringLoop(SavData, a[1], a[2], a[3]))

\* An item operation whose raw moves leave ChangesMade alone and whose
\* writes do not set it either.
ItemOp_FlagUntouched(name, moved, NewData) ==
    /\ core = "GBA"
    /\ SavLoaded
    /\ HasData
    /\ nops < MaxOps
    /\ nops' = nops + 1
    /\ op' = name
    /\ SavData' = NewData
    /\ ChangesMade' = ChangesMade
    /\ streak' = 0
    /\ AccessorFrame

\* An item operation ran on the edited slot of a GBA container with a
\* buffer and left NewData; moved tells whether it got past its count test,
\* and then it went through SAV::Write, which sets ChangesMade on a valid
\* container.
ItemOp(name, moved, NewData) ==
    /\ core = "GBA"
    /\ SavLoaded
    /\ HasData
    /\ nops < MaxOps
    /\ nops' = nops + 1
    /\ op' = name
    /\ SavData' = NewData
    /\ ChangesMade' = (ChangesMade \/ (SavValid /\ moved))
    /\ streak' = 0
    /\ AccessorFrame

\* HouseItem::AddItem
AddItem ==
    LET R == GBA_AddItem(SavValid, SavData, ItemOffs, ItemFields)
    IN  ItemOp("AddItem", R.Ret, R.Data)

\* HouseItem::RemoveItem(Index)
RemoveItem ==
    \E Index \in 0..1 :
        LET R == GBA_RemoveItem(SavValid, SavData, ItemOffs, Index)
        IN  ItemOp("RemoveItem", R.Ret, R.Data)

\* SAV::Finish()
Finish ==
    LET F == IF core = "NDS" THEN NDS_Finish(SavData, SavValid, Slots)
             ELSE GBA_Finish(SavData, SavValid)
    IN  /\ SavLoaded
        /\ op' = "Finish"
        /\ SavData' = F.Data
        /\ ChangesMade' = (ChangesMade \/ \E Slot \in 0..4 : F.Rets[Slot] = "fixed")
        /\ fixed' = F.Rets
        /\ streak' = IF streak = 0 THEN 1 ELSE 2
        /\ Handle' = "none"
        /\ UNCHANGED << core, SavLoaded, HasData, SavSize, SavValid, Slots, Region,
                        Loaded, oob, res, fetched, nops, Out, SessionVars, calc, call >>

\* What SaveHandler::WriteBack(File) does once access() has told whether
\* the file exists and fopen() whether it opens: Res is true only after the
\* fwrite, and Sav->Finish() runs only on the way to that fwrite.  First
\* tells whether the bytes go out before Finish() instead of after it.
WriteBackStep(exists, opens, First) ==
    LET F == IF core = "NDS" THEN NDS_Finish(SavData, SavValid, Slots)
             ELSE GBA_Finish(SavData, SavValid)
        wrote == exists /\ SavLoaded /\ HasData /\ SavValid /\ ChangesMade /\ opens
    IN  /\ core \in {"NDS", "GBA"}
        /\ nops < MaxOps
        /\ nops' = nops + 1
        /\ op' = "WriteBack"
        /\ res' = wrote
        /\ SavData' = IF wrote THEN F.Data ELSE SavData
        /\ ChangesMade' = (ChangesMade \/ (wrote /\ \E Slot \in 0..4 : F.Rets[Slot] = "fixed"))
        /\ fixed' = IF wrote THEN F.Rets ELSE fixed
        /\ Out' = IF wrote THEN Append(Out, IF First THEN SavData ELSE F.Data) ELSE Out
        /\ streak' = 0
        /\ Handle' = "none"
        /\ UNCHANGED << core, SavLoaded, HasData, SavSize, SavValid, Slots, Region,
                        Loaded, oob, fetched, SessionVars, calc, call >>

\* WriteBack with the fwrite ahead of Sav->Finish().
WriteBack_WriteFirst ==
    \E exists, opens \in BOOLEAN : WriteBackStep(exists, opens, TRUE)

\* SaveHandler::WriteBack(File), whatever the file system answers.
WriteBack ==
    \E exists, opens \in BOOLEAN : WriteBackStep(exists, opens, FALSE)

\* Sav->FetchSlot(SavSlot, Reg) called on the loaded NDS container.
FetchSlotCall ==
    /\ core = "NDS"
    /\ SavLoaded
    /\ \E SavSlot \in 0..2, Reg \in 0..2 :
         fetched' = << SavSlot, Reg, FetchSlot(HasData, SavData, SavSlot, Reg) >>
    /\ op' = "FetchSlot"
    /\ streak' = 0
    /\ Handle' = "none"
    /\ UNCHANGED << core, SavLoaded, HasData, SavData, SavSize, SavValid, ChangesMade,
                    Slots, Region, Loaded, oob, res, fixed, nops, Out,
                    SessionVars, calc, call >>

\* What a session operation leaves alone: the cores' container.
SessionFrame ==
    UNCHANGED << core, SavLoaded, HasData, SavData, SavSize, SavValid, ChangesMade,
                 Slots, Region, Loaded, oob, fetched, fixed, streak >>

\* A session operation named name is called.
SessionCall(name) ==
    /\ core = "S2Editor"
    /\ op # "Abort"
    /\ nops < MaxSession
    /\ nops' = nops + 1
    /\ op' = name
    /\ SessionFrame

\* SAVUtils::LoadSAV(File): the file is readable or not when its type is
\* detected, and opens or not when the container reads it.  The backup it
\* may write goes to another file.
SAVUtils_LoadSAV ==
    /\ SessionCall("SAVUtils_LoadSAV")
    /\ \E readable, reopens \in BOOLEAN, S \in SessionSaves :
         LET ST == SAVUtils_DetectType(readable, S)
             New == IF ST = "_GBA" THEN GBASAV_File(reopens, S)
                    ELSE NDSSAV_File(reopens, S)
         IN  IF ST = "_NONE"
             THEN res' = FALSE /\ UNCHANGED SessionVars
             ELSE /\ SAV' = ST
                  /\ SAVName' = FileName
                  /\ GBASAV' = IF ST = "_GBA" THEN New ELSE GBASAV
                  /\ NDSSAV' = IF ST = "_NDS" THEN New ELSE NDSSAV
                  /\ res' = New.Valid
    /\ Handle' = "none"
    /\ UNCHANGED << Out, calc, call >>

\* SAVUtils::LoadSAV(Data, Size): Data is given or null; SAVName is not
\* assigned on this path.
SAVUtils_LoadSAVData ==
    /\ SessionCall("SAVUtils_LoadSAVData")
    /\ \E given \in BOOLEAN, S \in SessionSaves :
         LET ST == SAVUtils_DetectType(given, S)
             New == IF ST = "_GBA" THEN GBASAV_Data(S) ELSE NDSSAV_Data(S)
         IN  IF ST = "_NONE"
             THEN /\ res' = FALSE
                  /\ Handle' = IF given THEN "held" ELSE "null"
                  /\ UNCHANGED SessionVars
             ELSE /\ SAV' = ST
                  /\ GBASAV' = IF ST = "_GBA" THEN New ELSE GBASAV
                  /\ NDSSAV' = IF ST = "_NDS" THEN New ELSE NDSSAV
                  /\ res' = New.Valid
                  /\ Handle' = IF New.Data THEN "null" ELSE "held"
                  /\ UNCHANGED SAVName
    /\ UNCHANGED << Out, calc, call >>

\* A container after a Write through its SAVUtils that DataHelper::Write
\* reports as done.
Written(C, done) ==
    IF ~C.Ptr \/ ~C.Valid \/ ~done THEN C
    ELSE [C EXCEPT !.ChangesMade = TRUE, !.Finished = FALSE]

\* GBASAVUtils::Write and NDSSAVUtils::Write, each on its own container.
SAVUtils_Write ==
    /\ SessionCall("SAVUtils_Write")
    /\ \E game \in {"_GBA", "_NDS"}, done \in BOOLEAN :
         /\ GBASAV' = IF game = "_GBA" THEN Written(GBASAV, done) ELSE GBASAV
         /\ NDSSAV' = IF game = "_NDS" THEN Written(NDSSAV, done) ELSE NDSSAV
    /\ Handle' = "none"
    /\ UNCHANGED << SAV, SAVName, Out, res, calc, call >>

\* The container of the active SAVType.
Active == IF SAV = "_GBA" THEN GBASAV ELSE NDSSAV

\* What SAVUtils::Finish() does when its fopen() opens the file or not.
\* The stream is not tested: fwrite on a null stream either stops the
\* program (aborts) or writes nothing.
SAVUtils_FinishStep(opens, aborts) ==
    LET writes == Active.Valid /\ Active.ChangesMade
        Done == [Active EXCEPT !.Finished = TRUE]
    IN  IF SAVName = "" \/ SAV = "_NONE"
        THEN op' = "SAVUtils_Finish" /\ UNCHANGED << SessionVars, Out >>
        ELSE IF writes /\ ~opens /\ aborts
        THEN /\ op' = "Abort"
             /\ GBASAV' = IF SAV = "_GBA" THEN Done ELSE GBASAV
             /\ NDSSAV' = IF SAV = "_NDS" THEN Done ELSE NDSSAV
             /\ UNCHANGED << SAV, SAVName, Out >>
        ELSE /\ op' = "SAVUtils_Finish"
             /\ Out' = IF writes /\ opens
                       THEN Append(Out, [Type |-> SAV, Finished |-> Done.Finished])
                       ELSE Out
             /\ SAVName' = ""
             /\ GBASAV' = IF SAV = "_GBA" THEN NullSAV ELSE GBASAV
             /\ NDSSAV' = IF SAV = "_NDS" THEN NullSAV ELSE NDSSAV
             /\ SAV' = "_NONE"

\* SAVUtils::Finish().
SAVUtils_Finish ==
    /\ core = "S2Editor"
    /\ op # "Abort"
    /\ nops < MaxSession
    /\ nops' = nops + 1
    /\ \E opens, aborts \in BOOLEAN : SAVUtils_FinishStep(opens, aborts)
    /\ SessionFrame
    /\ Handle' = "none"
    /\ UNCHANGED << res, calc, call >>

\* The life of a container: loaded, edited through the accessors, finished.
Next ==
    \/ LoadSavFile(Slim(core))
    \/ LoadSavBuffer(Slim(core))
    \/ ConstructSAV(Slim(core))
    \/ LoadSavRefused
    \/ Write
    \/ WriteBit
    \/ WriteBits
    \/ WriteString
    \/ AddItem
    \/ RemoveItem
    \/ Finish

Spec == Init /\ [][Next]_vars

\* Loading alone, over many more buffers, and slot resolution.
NextLoad ==
    \/ LoadSavFile(Rich(core))
    \/ LoadSavBuffer(Rich(core))
    \/ ConstructSAV(Rich(core))
    \/ FetchSlotCall

SpecLoad == Init /\ [][NextLoad]_vars

\* A container loaded, edited with typed writes, and written back to its
\* file, by the cores' SaveHandler or in a session of SAVUtils.
NextFile ==
    \/ LoadSavFile(Slim(core))
    \/ LoadSavBuffer(Slim(core))
    \/ LoadSavRefused
    \/ Write
    \/ Finish
    \/ WriteBack
    \/ SAVUtils_LoadSAV
    \/ SAVUtils_LoadSAVData
    \/ SAVUtils_Write
    \/ SAVUtils_Finish

SpecFile == Init /\ [][NextFile]_vars

\* The checksum engine by itself: the buffers are three words, at 0x0, 0x2
\* and 0xE, of bytes that add up with and without a carry; the ranges
\* start at word 0 or 1 and end before or after the word 0xE / 2.
CalcBytes == {0, 1, 255}
CalcOffs == {0, 1, 2, 3, 14, 15}
CalcStarts == {0, 1}
CalcEnds == {1, 2, 8}
CalcSkips == { {}, {7}, {1}, {0, 7} }

InitCalc ==
    /\ core = "NDS"
    /\ SavLoaded = FALSE
    /\ HasData = FALSE
    /\ SavData = AllZero(Offs("NDS"))
    /\ SavSize = 0
    /\ SavValid = FALSE
    /\ ChangesMade = FALSE
    /\ Slots = NoSlots
    /\ Region = "UNKNOWN"
    /\ Loaded = AllZero(Offs("NDS"))
    /\ oob = 0
    /\ op = "none"
    /\ res = FALSE
    /\ fetched = NoFetch
    /\ fixed = NotCalled
    /\ nops = 0
    /\ streak = 0
    /\ Out = << >>
    /\ Handle = "none"
    /\ SAV = "_NONE"
    /\ SAVName = ""
    /\ GBASAV = NullSAV
    /\ NDSSAV = NullSAV
    /\ call = NoCall
    /\ \E Buffer \in [CalcOffs -> CalcBytes], StartOffs \in CalcStarts,
          EndOffs \in CalcEnds, SkipOffs \in CalcSkips, SettingsChks \in BOOLEAN :
         calc = [NoCalc EXCEPT !.Buffer = Buffer, !.StartOffs = StartOffs,
                               !.EndOffs = EndOffs, !.SkipOffs = SkipOffs,
                               !.SettingsChks = SettingsChks]

\* Checksum::Calc of both cores and Checksum_Calc of the JavaScript port are
\* called on the arguments, and each result is written to a checksum field
\* and read back.
CalcCall ==
    LET N == NDS_Calc(calc.Buffer, calc.StartOffs, calc.EndOffs, calc.SkipOffs)
        G == GBA_Calc(calc.Buffer, calc.StartOffs, calc.EndOffs, calc.SettingsChks)
        J == Checksum_Calc(calc.Buffer, calc.StartOffs, calc.EndOffs, calc.SkipOffs)
    IN  /\ calc.Buffer # << >>
        /\ ~calc.called
        /\ calc' = [calc EXCEPT !.called = TRUE, !.NDS = N, !.GBA = G, !.JS = J,
                                !.Stored = WriteRead16(N), !.JSStored = JS_WriteRead16(J)]
        /\ op' = "Calc"
        /\ UNCHANGED << core, SavLoaded, HasData, SavData, SavSize, SavValid, ChangesMade,
                        Slots, Region, Loaded, oob, res, fetched, fixed, nops, streak,
                        Out, Handle, SessionVars, call >>

NextCalc == CalcCall

SpecCalc == InitCalc /\ [][NextCalc]_vars

(***************************************************************************)
(* The NDS slot header checksum of the JavaScript port called by itself.   *)
(***************************************************************************)
\* Region-relative offsets of the header buffers: the words 0 and 1, the
\* skipped word 0xE, and the word 0x12 whose high byte is the marker 0x13.
HeaderRel == {0, 1, 2, 14, 15, 18, 19}

\* The regions whose header is summed.
HeaderSlots == {0, 1}

InitHeader ==
    /\ core = "NDS"
    /\ SavLoaded = FALSE
    /\ HasData = FALSE
    /\ SavData = AllZero(Offs("NDS"))
    /\ SavSize = 0
    /\ SavValid = FALSE
    /\ ChangesMade = FALSE
    /\ Slots = NoSlots
    /\ Region = "UNKNOWN"
    /\ Loaded = AllZero(Offs("NDS"))
    /\ oob = 0
    /\ op = "none"
    /\ res = FALSE
    /\ fetched = NoFetch
    /\ fixed = NotCalled
    /\ nops = 0
    /\ streak = 0
    /\ Out = << >>
    /\ Handle = "none"
    /\ SAV = "_NONE"
    /\ SAVName = ""
    /\ GBASAV = NullSAV
    /\ NDSSAV = NullSAV
    /\ call = NoCall
    /\ \E Slot \in HeaderSlots, HeadBytes \in [HeaderRel -> CalcBytes] :
         calc = [NoCalc EXCEPT
                   !.Slot = Slot,
                   !.Buffer = [o \in { Slot * SlotSize + Rel : Rel \in HeaderRel } |->
                                 HeadBytes[o - Slot * SlotSize]]]

\* Checksum_CalcNDSSlotHeader(Buffer, Slot) is called.
HeaderCall ==
    /\ calc.Buffer # << >>
    /\ ~calc.called
    /\ calc' = [calc EXCEPT !.called = TRUE,
                            !.Header = Checksum_CalcNDSSlotHeader(calc.Buffer, calc.Slot)]
    /\ op' = "CalcNDSSlotHeader"
    /\ UNCHANGED << core, SavLoaded, HasData, SavData, SavSize, SavValid, ChangesMade,
                    Slots, Region, Loaded, oob, res, fetched, fixed, nops, streak,
                    Out, Handle, SessionVars, call >>

NextHeader == HeaderCall

SpecHeader == InitHeader /\ [][NextHeader]_vars

(***************************************************************************)
(* The field accessors on a loaded container: a save of the small size is  *)
(* loaded, fields of its settings and slots are set, Finish() is called.   *)
(***************************************************************************)
\* SaveHandler::LoadSav(File) on a file of the small whitelisted size.
LoadSavSmall(Bufs) ==
    /\ op' = "LoadSavFile"
    /\ Handle' = "none"
    /\ \E Data \in Bufs, Past \in PastBytes(core) :
         NewSAV(TRUE, Data, IF core = "NDS" THEN NDSSmall ELSE GBASmall, TRUE, Past)

\* Offs of the Slot object Sav->_Slot(Slt) returns.
SlotOffs(Slt) == IF core = "NDS" THEN Slots[Slt] * SlotSize ELSE Slt * SlotSize

\* Sav->_Slot(Slt) returns a Slot and not nullptr.
HasSlot(Slt) ==
    IF core = "NDS" THEN NDS_SlotExist(SavValid, Slots, Slt)
    ELSE Slt = FieldSlot /\ GBA_SlotExist(SavData, Slt)

\* Sav->_Settings()->f(V), or Sav->_Slot(Slt)->f(V) resp. f(Index, V)
SetField ==
    \E f \in Fields(core), Slt \in 0..2 :
      \E V \in FieldValues(core, f), Index \in FieldIndexes(f) :
        LET R == FieldSet(core, f, SavValid /\ HasData,
                          [Data |-> SavData, Changed |-> ChangesMade],
                          SlotOffs(Slt), Index, V)
        IN  /\ SavLoaded
            /\ HasData
            /\ IF f \in SettingsFields THEN Slt = 0 ELSE HasSlot(Slt)
            /\ nops < MaxOps
            /\ nops' = nops + 1
            /\ op' = "SetField"
            /\ call' = [Field |-> f, Slot |-> Slt, Index |-> Index, V |-> V]
            /\ SavData' = R.Data
            /\ ChangesMade' = R.Changed
            /\ streak' = 0
            /\ Handle' = "none"
            /\ UNCHANGED << core, SavLoaded, HasData, SavSize, SavValid, Slots, Region,
                            Loaded, oob, res, fetched, fixed, Out, SessionVars, calc >>

NextField ==
    \/ LoadSavSmall(FieldBufs(core))
    \/ SetField
    \/ Finish

SpecField == Init /\ [][NextField]_vars

(***************************************************************************)
(* The string accessors on a loaded container.                             *)
(***************************************************************************)
\* Sav->WriteString(Offs, Length, Str), the arguments kept for the
\* Sav->ReadString(Offs, Length) that follows: call.Slot is Offs,
\* call.Index is Length, call.V is Str.
WriteStringCall ==
    \E a \in StringArgs(core) :
        /\ SavLoaded
        /\ nops < MaxOps
        /\ nops' = nops + 1
        /\ op' = "WriteString"
        /\ call' = [Field |-> "String", Slot |-> a[1], Index |-> a[2], V |-> a[3]]
        /\ SavData' = IF ~SavValid \/ ~HasData THEN SavData
                      ELSE IF core = "NDS" THEN NDS_WriteStringLoop(SavData, a[1], a[2], a[3], 0)
                      ELSE GBA_WriteStringLoop(SavData, a[1], a[2], a[3])
        /\ ChangesMade' = IF ~SavValid \/ ~HasData THEN ChangesMade ELSE TRUE
        /\ streak' = 0
        /\ Handle' = "none"
        /\ UNCHANGED << core, SavLoaded, HasData, SavSize, SavValid, Slots, Region,
                        Loaded, oob, res, fetched, fixed, Out, SessionVars, calc >>

NextString ==
    \/ LoadSavSmall(FieldBufs(core))
    \/ WriteStringCall

SpecString == Init /\ [][NextString]_vars

(***************************************************************************)
(* Properties.                                                             *)
(***************************************************************************)
LoadOps == {"LoadSavFile", "LoadSavBuffer", "ConstructSAV"}
WriteOps == {"Write", "WriteBit", "WriteBits", "WriteString"}

\* The stored checksum of the NDS region at At is what the engine computes
\* over 0x10..0x1000 of the region with the words at 0x12 and 0x28 skipped.
NDSStoredRight(Buffer, At) ==
    ReadLE(Buffer, At + 40, 2)
        = NDS_Calc(Buffer, (At + 16) \div 2, (At + SlotSize) \div 2,
                   { (At + 18) \div 2, (At + 40) \div 2 })

\* The stored checksum of the GBA slot at At is what the engine computes
\* over 0x0..0xFFE of the slot.
GBAStoredRight(Buffer, At) ==
    ReadLE(Buffer, At + 4094, 2) = GBA_Calc(Buffer, At \div 2, (At + 4094) \div 2, FALSE)

\* The stored GBA settings checksum is what the engine computes over
\* 0x0..0x18 with the word at 0xE skipped.
GBASettingsRight(Buffer) ==
    ReadLE(Buffer, 14, 2) = GBA_Calc(Buffer, 0, 12, TRUE)

\* Every existing slot, and the GBA settings header, holds its right checksum.
AllStoredRight ==
    IF core = "NDS"
    THEN \A Slot \in 0..2 : Slots[Slot] # -1 => NDSStoredRight(SavData, Slots[Slot] * SlotSize)
    ELSE /\ \A Slt \in 1..4 : GBA_SlotExist(SavData, Slt) => GBAStoredRight(SavData, Slt * SlotSize)
         /\ GBASettingsRight(SavData)

\* C1: right after Finish() on a valid container, every existing slot (NDS:
\* each logical slot mapped to a region; GBA: each slot 1..4 that exists)
\* and the GBA settings header stores the checksum that Calc recomputes on
\* the resulting buffer over the region's range with its skip list.
C1_ChecksumsRightAfterFinish ==
    (SavLoaded /\ SavValid /\ op = "Finish") => AllStoredRight

\* C1 witness: Finish ran on a valid NDS container and repaired the
\* checksums of two mapped slots.
C1_Witness ==
    /\ core = "NDS" /\ SavLoaded /\ SavValid /\ op = "Finish"
    /\ Slots[0] # -1 /\ Slots[1] # -1
    /\ fixed[0] = "fixed" /\ fixed[1] = "fixed"

\* C2: a Finish() that directly follows a Finish() on a valid container
\* leaves every byte of the buffer as the first one left it.
C2_FinishIdempotent ==
    [][(SavLoaded /\ SavValid /\ op = "Finish" /\ op' = "Finish") => SavData' = SavData]_vars

\* C2 witness: a valid GBA container was written to and then finished
\* twice in a row; the second Finish met the settings header and slot 4
\* with their checksums already right.
C2_Witness ==
    /\ core = "GBA" /\ SavLoaded /\ SavValid /\ op = "Finish" /\ streak = 2
    /\ nops > 0 /\ ChangesMade
    /\ \A Slot \in 0..4 : fixed[Slot] # "fixed"
    /\ fixed[0] = "kept" /\ fixed[4] = "kept"

\* Region Slot of Buffer carries the slot identifier with region code Reg.
IdentifiedAs(Buffer, Slot, Reg) ==
    \A ID \in 0..7 :
        Byte(Buffer, Slot * SlotSize + ID) = SlotIdent[ID] + (IF ID = 4 THEN Reg ELSE 0)

\* The identified regions of Buffer that claim logical slot SavSlot.
Claimants(Buffer, SavSlot, Reg) ==
    { Slot \in 0..4 :
        /\ IdentifiedAs(Buffer, Slot, Reg)
        /\ Byte(Buffer, Slot * SlotSize + 12) + Byte(Buffer, Slot * SlotSize + 13) = SavSlot }

\* The 32-bit save counter of region Slot.
Counter(Buffer, Slot) == ReadLE(Buffer, Slot * SlotSize + 8, 4)

\* The claimants whose counter no other claimant exceeds.
Newest(Buffer, SavSlot, Reg) ==
    { Slot \in Claimants(Buffer, SavSlot, Reg) :
        \A Other \in Claimants(Buffer, SavSlot, Reg) :
            Counter(Buffer, Other) <= Counter(Buffer, Slot) }

FetchCalled == core = "NDS" /\ SavLoaded /\ HasData /\ op = "FetchSlot"

\* C3: FetchSlot(SavSlot, Reg) returns, among the identified regions that
\* claim SavSlot, the one with the maximum save counter, and the lowest
\* region index among those that share the maximum.
C3_FetchSlotNewestFirst ==
    (FetchCalled /\ Claimants(SavData, fetched[1], fetched[2]) # {})
        => fetched[3] = Min(Newest(SavData, fetched[1], fetched[2]))

\* C4: FetchSlot(SavSlot, Reg) returns -1 exactly when no identified region
\* claims SavSlot, and otherwise the index of a claimant, whatever its save
\* counter.
C4_FetchSlotSentinel ==
    FetchCalled =>
        /\ (fetched[3] = -1) <=> (Claimants(SavData, fetched[1], fetched[2]) = {})
        /\ fetched[3] # -1 => fetched[3] \in Claimants(SavData, fetched[1], fetched[2])

\* C5: on every load path a container is valid only if its size is one of
\* the whitelisted sizes of its format.
C5_ValidOnlyWhitelisted ==
    (SavLoaded /\ SavValid) => Whitelisted(core, SavSize)

\* Region Slot of Buffer is identified: the 8 leading bytes are the slot
\* identifier, byte 4 being the base value plus 0, 1 or 2.
Identified(Buffer, Slot) == \E Reg \in 0..2 : IdentifiedAs(Buffer, Slot, Reg)

\* Region Slot differs from the identifier in a byte other than byte 4.
OtherByteWrong(Buffer, Slot) ==
    \E ID \in (0..7) \ {4} : Byte(Buffer, Slot * SlotSize + ID) # SlotIdent[ID]

\* C6: an NDS container of whitelisted size is valid if and only if one of
\* its 5 candidate regions is identified; it is invalid when every region
\* differs from the identifier in a byte other than byte 4.
C6_NDSValidIffIdentified ==
    (core = "NDS" /\ SavLoaded /\ Whitelisted(core, SavSize)) =>
        /\ SavValid <=> (HasData /\ \E Slot \in 0..4 : Identified(Loaded, Slot))
        /\ (\A Slot \in 0..4 : OtherByteWrong(Loaded, Slot)) => ~SavValid

\* C6 witness: a valid NDS container of whitelisted size whose region 1 is
\* wrong in byte 7 only and whose region 3 is identified with the base
\* value plus 2.
C6_Witness ==
    /\ core = "NDS" /\ SavLoaded /\ Whitelisted(core, SavSize) /\ SavValid
    /\ ~Identified(Loaded, 1) /\ Byte(Loaded, SlotSize + 7) # SlotIdent[7]
    /\ IdentifiedAs(Loaded, 3, 2)

\* Bytes 0..6 of Buffer are the 7-byte identifier 53 54 57 4E 30 32 34.
MagicPrefix(Buffer) == \A Idx \in 0..6 : Byte(Buffer, Idx) = GBAIdent[Idx]

\* C7: the GBA validation of a buffer yields true exactly when bytes 0..6
\* are the identifier; byte 7 and what lies past the identifier array have
\* no part in it.
C7_GBAValidIffPrefix ==
    (core = "GBA" /\ SavLoaded /\ HasData) => (SavValid <=> MagicPrefix(Loaded))

\* C8: after validating a GBA buffer of whitelisted size with the right
\* prefix: a language byte above 5 gives a valid container with byte 0xA
\* zero and ChangesMade set; a language byte 0..5 leaves byte 0xA and leaves
\* ChangesMade false.
C8_LanguageSanitized ==
    (core = "GBA" /\ SavLoaded /\ HasData /\ Whitelisted(core, SavSize)
        /\ op \in LoadOps /\ MagicPrefix(Loaded)) =>
        IF Byte(Loaded, 10) > 5
        THEN SavValid /\ Byte(SavData, 10) = 0 /\ ChangesMade
        ELSE Byte(SavData, 10) = Byte(Loaded, 10) /\ ~ChangesMade

\* C9: on an invalid container Finish() and each write primitive leave
\* every buffer byte and ChangesMade as they were.
C9_InvalidInert ==
    [][(SavLoaded /\ ~SavValid /\ op' \in WriteOps \cup {"Finish"})
        => (SavData' = SavData /\ ChangesMade' = ChangesMade)]_vars

\* C9 witness: an invalid GBA container holding a buffer with a stale
\* settings checksum was written to and then finished, and its buffer and
\* flag are as loaded.
C9_Witness ==
    /\ core = "GBA" /\ SavLoaded /\ ~SavValid /\ HasData
    /\ op = "Finish" /\ nops >= 2
    /\ ~GBASettingsRight(SavData)
    /\ SavData = Loaded /\ ~ChangesMade

\* C10: Finish() on a valid container whose stored checksums are all right
\* changes no buffer byte, keeps ChangesMade, and no FixChecksum reports a
\* repair.
C10_FinishWritesNothing ==
    [][(SavLoaded /\ SavValid /\ AllStoredRight /\ op' = "Finish")
        => /\ SavData' = SavData
           /\ ChangesMade' = ChangesMade
           /\ \A Slot \in 0..4 : fixed'[Slot] # "fixed"]_vars

\* C10 witness: a freshly loaded valid GBA container with slots 1 and 4 and
\* right checksums was finished; both slots were examined, nothing was
\* repaired and ChangesMade is still false.
C10_Witness ==
    /\ core = "GBA" /\ SavLoaded /\ SavValid /\ op = "Finish" /\ streak = 1
    /\ nops = 0 /\ ~ChangesMade /\ SavData = Loaded
    /\ fixed[0] = "kept" /\ fixed[1] = "kept" /\ fixed[4] = "kept"

\* C11: on a valid container, after any accessor-layer operation (typed,
\* bit, nibble and string writes, item add and remove, Finish), a buffer
\* that differs from the bytes loaded has ChangesMade set, and ChangesMade,
\* once set, stays set.
C11_DirtyFlagSound ==
    [][/\ (SavLoaded' /\ SavValid' /\ SavData' # Loaded') => ChangesMade'
       /\ (SavLoaded /\ SavValid /\ ChangesMade) => ChangesMade']_vars

\* C11 witness: AddItem on a valid GBA container counted one item, its move
\* cleared the byte 0xFFC of the slot, which was loaded as 0xFF, and
\* ChangesMade is set.
C11_Witness ==
    /\ core = "GBA" /\ SavLoaded /\ SavValid /\ op = "AddItem"
    /\ Byte(SavData, ItemOffs) = 1
    /\ Byte(Loaded, ItemSlot * SlotSize + 4092) = 255
    /\ Byte(SavData, ItemSlot * SlotSize + 4092) = 0
    /\ ChangesMade

C13_WriteBackFinishes ==
    (core \in {"NDS", "GBA"} /\ op = "WriteBack" /\ SavLoaded /\ HasData /\ SavValid
        /\ ChangesMade)
        => AllStoredRight

\* The words Calc adds up: those of [StartOffs, EndOffs) not in SkipOffs.
\* A word the buffer does not track holds 0 and adds nothing.
SummedWords(Buffer, StartOffs, EndOffs, SkipOffs) ==
    ({ o \div 2 : o \in DOMAIN Buffer } \cap (StartOffs..(EndOffs - 1))) \ SkipOffs

\* The plain sum of the bytes at offset Lane (0: low, 1: high) of Words.
RECURSIVE LaneSum(_, _, _)
LaneSum(Buffer, Words, Lane) ==
    IF Words = {} THEN 0
    ELSE LET w == CHOOSE x \in Words : TRUE
         IN  Byte(Buffer, 2 * w + Lane) + LaneSum(Buffer, Words \ {w}, Lane)

\* The accumulators of the reference algorithm in closed form: Byte1 is the
\* sum of the low bytes mod 256; Byte2 is the sum of the high bytes, plus
\* one for every 256 the low bytes reached, plus the final increment, mod 256.
RefBytes(Buffer, StartOffs, EndOffs, SkipOffs) ==
    LET Words == SummedWords(Buffer, StartOffs, EndOffs, SkipOffs)
        Lo == LaneSum(Buffer, Words, 0)
        Hi == LaneSum(Buffer, Words, 1)
    IN  << Lo % 256, (Hi + Lo \div 256 + 1) % 256 >>

\* What the word list of the GBA variant amounts to.
SettingsSkip(SettingsChks) == IF SettingsChks THEN {14 \div 2} ELSE {}

\* C14 as stated: Checksum::Calc of both cores returns
\* 256 * (256 - Byte2) + (256 - Byte1) of the reference accumulators.
C14_CalcIsReference ==
    calc.called =>
        LET N == RefBytes(calc.Buffer, calc.StartOffs, calc.EndOffs, calc.SkipOffs)
            G == RefBytes(calc.Buffer, calc.StartOffs, calc.EndOffs,
                          SettingsSkip(calc.SettingsChks))
        IN  /\ calc.NDS = 256 * (256 - N[2]) + (256 - N[1])
            /\ calc.GBA = 256 * (256 - G[2]) + (256 - G[1])

\* C14, amended: Checksum::Calc of both cores returns
\* 256 * ((256 - Byte2) mod 256) + ((256 - Byte1) mod 256) of the reference
\* accumulators, each negation taken as a byte.
C14_CalcIsReferenceOnBytes ==
    calc.called =>
        LET N == RefBytes(calc.Buffer, calc.StartOffs, calc.EndOffs, calc.SkipOffs)
            G == RefBytes(calc.Buffer, calc.StartOffs, calc.EndOffs,
                          SettingsSkip(calc.SettingsChks))
        IN  /\ calc.NDS = 256 * ((256 - N[2]) % 256) + ((256 - N[1]) % 256)
            /\ calc.GBA = 256 * ((256 - G[2]) % 256) + ((256 - G[1]) % 256)

\* C14 witness: Calc ran over two words whose low bytes 0xFF and 0x01 carry
\* into Byte2 and leave Byte1 = 0, where the two formulas part.
C14_Witness ==
    /\ calc.called
    /\ calc.StartOffs = 0 /\ calc.EndOffs = 2 /\ calc.SkipOffs = {}
    /\ calc.Buffer[0] = 255 /\ calc.Buffer[2] = 1
    /\ calc.Buffer[1] = 0 /\ calc.Buffer[3] = 0
    /\ calc.NDS = 65024

\* The checksum fields the last Finish() wrote, each with the range and
\* skip list it was computed over: NDS slots at 0x28 of their region, GBA
\* slots at 0xFFE of theirs, the GBA settings at 0xE.
JustWritten ==
    IF core = "NDS"
    THEN { [Field |-> Slots[Slot] * SlotSize + 40,
            StartOffs |-> (Slots[Slot] * SlotSize + 16) \div 2,
            EndOffs |-> (Slots[Slot] * SlotSize + SlotSize) \div 2,
            SkipOffs |-> { (Slots[Slot] * SlotSize + 18) \div 2,
                           (Slots[Slot] * SlotSize + 40) \div 2 }] :
             Slot \in { x \in 0..2 : fixed[x] = "fixed" } }
    ELSE { [Field |-> Slt * SlotSize + 4094,
            StartOffs |-> (Slt * SlotSize) \div 2,
            EndOffs |-> (Slt * SlotSize + 4094) \div 2,
            SkipOffs |-> {}] : Slt \in { x \in 1..4 : fixed[x] = "fixed" } }
         \cup { [Field |-> 14, StartOffs |-> 0, EndOffs |-> 24 \div 2,
                 SkipOffs |-> {14 \div 2}] : x \in { y \in {0} : fixed[y] = "fixed" } }

\* The plain sum of the bytes of one lane of the words written field W covers.
FieldLane(W, Lane) ==
    LaneSum(SavData, SummedWords(SavData, W.StartOffs, W.EndOffs, W.SkipOffs), Lane)

\* C15 as stated: for every checksum field just written, the low bytes of
\* the summed words plus the low byte of the stored checksum are 0 mod 256,
\* and so are the high bytes plus the high byte of the stored checksum.
C15_LanesSumToZero ==
    (core \in {"NDS", "GBA"} /\ SavLoaded /\ SavValid /\ op = "Finish") =>
        \A W \in JustWritten :
            /\ (FieldLane(W, 0) + Byte(SavData, W.Field)) % 256 = 0
            /\ (FieldLane(W, 1) + Byte(SavData, W.Field + 1)) % 256 = 0

\* C15, amended: for every checksum field just written, the low bytes of
\* the summed words plus the low byte of the stored checksum are 0 mod 256;
\* the high bytes plus the high byte of the stored checksum, plus one for
\* every 256 the low bytes add up to, plus one, are 0 mod 256.
C15_LanesSumToZeroWithCarries ==
    (core \in {"NDS", "GBA"} /\ SavLoaded /\ SavValid /\ op = "Finish") =>
        \A W \in JustWritten :
            /\ (FieldLane(W, 0) + Byte(SavData, W.Field)) % 256 = 0
            /\ (FieldLane(W, 1) + Byte(SavData, W.Field + 1)
                    + FieldLane(W, 0) \div 256 + 1) % 256 = 0

\* C15 witness: Finish() wrote the checksum of a GBA slot whose low bytes
\* add up to 256 or more.
C15_Witness ==
    /\ core = "GBA" /\ SavLoaded /\ SavValid /\ op = "Finish"
    /\ \E W \in JustWritten : W.Field # 14 /\ FieldLane(W, 0) >= 256

\* C16: the checksum engine's result is a 16-bit unsigned value: Checksum_Calc
\* of the JavaScript port and Checksum::Calc return an integer in 0..65535,
\* and writing it to the 2-byte checksum field and reading it back yields
\* the computed value.
C16_ResultIsUint16 ==
    calc.called =>
        /\ calc.NDS \in 0..65535 /\ calc.GBA \in 0..65535 /\ calc.JS \in 0..65535
        /\ calc.Stored = calc.NDS
        /\ calc.JSStored = calc.JS

\* C17: for every buffer and range, S2GBACore Checksum::Calc with
\* SettingsChks = true equals S2NDSCore Checksum::Calc with the skip list
\* {0xE / 2}, and with SettingsChks = false equals it with an empty list.
C17_VariantIsListBased ==
    calc.called =>
        calc.GBA = NDS_Calc(calc.Buffer, calc.StartOffs, calc.EndOffs,
                            IF calc.SettingsChks THEN {14 \div 2} ELSE {})

\* C17 witness: the GBA variant ran with SettingsChks = true over a range
\* that holds the word 0xE / 2, whose bytes are not zero, and words that
\* carry.
C17_Witness ==
    /\ calc.called /\ calc.SettingsChks
    /\ calc.StartOffs = 0 /\ calc.EndOffs = 8
    /\ calc.Buffer[14] = 255 /\ calc.Buffer[15] = 1
    /\ calc.Buffer[0] = 255 /\ calc.Buffer[2] = 255
    /\ calc.GBA = 65026

\* C18: after SaveHandler::LoadSav(Data, Size) returns, whatever its result,
\* the caller's Data handle is null: the buffer was moved into the container.
C18_HandleNullAfterLoadSav ==
    (core \in {"NDS", "GBA"} /\ op \in {"LoadSavBuffer", "LoadSavRefused"}) => Handle = "null"

\* C19: whenever SaveHandler::LoadSav or SAVUtils::LoadSAV returns false, no
\* valid container is active afterwards: the Sav pointer is null or its
\* GetValid() is false, even when an earlier load had succeeded.
C19_FailedLoadLeavesNothingValid ==
    /\ (core \in {"NDS", "GBA"}
            /\ op \in {"LoadSavFile", "LoadSavBuffer", "LoadSavRefused"} /\ ~res)
        => ~(SavLoaded /\ SavValid)
    /\ (core = "S2Editor" /\ op \in {"SAVUtils_LoadSAV", "SAVUtils_LoadSAVData"} /\ ~res)
        => ~(SAV # "_NONE" /\ Active.Ptr /\ Active.Valid)

\* C20: after SAVUtils::Finish() returns in a session whose active container
\* a LoadSAV, from a file or from a raw buffer, loaded successfully,
\* everything is unloaded: the active type is _NONE, the save name is empty
\* and both container pointers are null.
C20_FinishUnloadsEverything ==
    [][(core = "S2Editor" /\ op' = "SAVUtils_Finish"
            /\ SAV # "_NONE" /\ Active.Ptr /\ Active.Valid)
        => (SAV' = "_NONE" /\ SAVName' = "" /\ ~GBASAV'.Ptr /\ ~NDSSAV'.Ptr)]_vars

(***************************************************************************)
(* Field accessors.                                                        *)
(***************************************************************************)
\* The last operation was a field setter, called on a valid container.
FieldSetOnValid == op = "SetField" /\ SavValid /\ HasData

\* What the getter of the field last set returns now.
Getter ==
    FieldGet(core, call.Field, SavValid /\ HasData, SavData, SlotOffs(call.Slot), call.Index)

\* C21: a field setter given a value above the field's valid maximum stores
\* the maximum: right after it, the getter returns the maximum.
C21_SettersClamp ==
    (FieldSetOnValid /\ call.V > FieldMax(core, call.Field))
        => Getter = FieldMax(core, call.Field)

\* C22: on a valid container, a slot setter called with a value V of the
\* field's valid range is followed by a getter that returns V.
C22_SetGetRoundTrip ==
    (FieldSetOnValid /\ call.Field \notin SettingsFields
                     /\ call.V <= FieldMax(core, call.Field))
        => Getter = call.V

(***************************************************************************)
(* String accessors.                                                       *)
(***************************************************************************)
\* What Sav->ReadString(Offs, Length) returns now for the Offs and Length
\* of the last WriteString.
ReadBack ==
    IF core = "NDS" THEN NDS_ReadString(SavValid /\ HasData, SavData, call.Slot, call.Index)
    ELSE GBA_ReadString(SavValid /\ HasData, SavData, call.Slot, call.Index)

\* The bytes of the first Count characters of Str, a character being a
\* glyph of the encoding table where one starts and a single byte elsewhere.
RECURSIVE FirstChars(_, _, _)
FirstChars(Str, StrIdx, Count) ==
    IF Count = 0 \/ StrIdx >= Len(Str) THEN << >>
    ELSE LET Matches == { EncodingIdx \in 0..(Len(EncodingTable) - 1) :
                            EncodingMatch(Str, StrIdx, EncodingIdx) }
             Size == IF Matches = {} THEN 1 ELSE Len(EncodingTable[Min(Matches) + 1])
         IN  SubSeq(Str, StrIdx + 1, StrIdx + Size) \o FirstChars(Str, StrIdx + Size, Count - 1)

\* C23: on a valid container, WriteString(Offs, Length, S) followed by
\* ReadString(Offs, Length) returns S when S has at most Length characters
\* and its first Length characters otherwise, with no NUL after them.
C23_StringRoundTrip ==
    (op = "WriteString" /\ SavValid /\ HasData)
        => ReadBack = FirstChars(call.V, 0, call.Index)

(***************************************************************************)
(* Identification of the NDS regions.                                      *)
(***************************************************************************)
\* The Reg that ValidationCheck hands to FetchSlot on Buffer: the region
\* code of the first region it identified.
PassedReg(Buffer) ==
    RegionOf(Buffer, Min({ Slot \in 0..4 : ValidationCount(Buffer, Slot) = 8 }))

\* C24: every region that satisfies the identification rule of
\* ValidationCheck is identified by the FetchSlot calls of the same load as
\* well, whichever region code each region carries.
C24_ValidatorAndLocatorAgree ==
    (core = "NDS" /\ op \in LoadOps /\ SavLoaded /\ SavValid) =>
        \A Slot \in 0..4 :
            Identified(Loaded, Slot) => FetchIDCount(Loaded, Slot, PassedReg(Loaded)) = 8

\* The first 16 bytes of every region of the current buffer are the loaded ones.
HeadersAsLoaded ==
    \A Slot \in 0..4, Rel \in 0..15 :
        Byte(SavData, Slot * SlotSize + Rel) = Byte(Loaded, Slot * SlotSize + Rel)

\* C25: after any sequence of NDS slot field setters and Finish() calls the
\* slot map is the one the load computed, it is what FetchSlot returns on
\* the current buffer, and the region offsets 0x0..0xF are as loaded.
C25_SlotsStayResolved ==
    (core = "NDS" /\ SavLoaded /\ SavValid /\ op \in {"SetField", "Finish"}) =>
        /\ Slots = NDS_ValidationCheck(HasData, Loaded).Slots
        /\ \A Idx \in 0..2 : Slots[Idx] = FetchSlot(HasData, SavData, Idx, PassedReg(SavData))
        /\ HeadersAsLoaded

\* C25 witness: two slots are mapped, the pocket count of the one in region
\* 4 was set, and the Finish() after it fixed a checksum.
C25_Witness ==
    /\ core = "NDS" /\ SavLoaded /\ SavValid /\ op = "Finish"
    /\ Slots[0] = 0 /\ Slots[1] = 4
    /\ call.Field = "PocketCount" /\ call.Slot = 1
    /\ NDS_Slot_PocketCount(TRUE, SavData, 4 * SlotSize) = 6
    /\ fixed[1] = "fixed"

(***************************************************************************)
(* What the checksum depends on.                                           *)
(***************************************************************************)
\* Buffer with the byte at offset At replaced by b.
WithByte(Buffer, At, b) == [Buffer EXCEPT ![At] = b]

\* C26: Checksum::Calc and Checksum_Calc depend only on the words of
\* [StartOffs, EndOffs) that are not skipped: replacing any byte of a
\* skipped word or of a word outside the range by any other byte leaves the
\* result as it is.  Two buffers that agree on the summed words differ in
\* such bytes only, so byte by byte they yield the same result.
C26_CalcIgnoresOtherBytes ==
    calc.called =>
        \A At \in DOMAIN calc.Buffer, b \in CalcBytes :
            (At \div 2) \notin SummedWords(calc.Buffer, calc.StartOffs, calc.EndOffs,
                                           calc.SkipOffs)
            => /\ NDS_Calc(WithByte(calc.Buffer, At, b), calc.StartOffs, calc.EndOffs,
                           calc.SkipOffs) = calc.NDS
               /\ Checksum_Calc(WithByte(calc.Buffer, At, b), calc.StartOffs, calc.EndOffs,
                                calc.SkipOffs) = calc.JS

\* C26 witness: the range 0..1 holds the skipped word 1, whose bytes are
\* not zero, and the word 7 outside the range is not zero either.
C26_Witness ==
    /\ calc.called
    /\ calc.StartOffs = 0 /\ calc.EndOffs = 2 /\ calc.SkipOffs = {1}
    /\ calc.Buffer[2] = 255 /\ calc.Buffer[3] = 1
    /\ calc.Buffer[14] = 255
    /\ calc.Buffer[0] = 1

(***************************************************************************)
(* The NDS slot header checksum.                                           *)
(***************************************************************************)
\* Checksum_Calc over the words of the region bytes 0x0..0x13 of the slot
\* summed, the word at 0xE skipped.
HeaderByCalc ==
    Checksum_Calc(calc.Buffer, (calc.Slot * SlotSize) \div 2,
                  (calc.Slot * SlotSize + 20) \div 2, { (calc.Slot * SlotSize + 14) \div 2 })

\* The marker byte at region offset 0x13.
Marker == Byte(calc.Buffer, calc.Slot * SlotSize + 19)

\* C27: the header checksum takes the Byte2++ after the loop if and only if
\* the marker byte is zero.  With a zero marker it is Checksum_Calc over the
\* same words, which always takes it; with any other marker it is the value
\* of one increment less: 256 more, or, where the increment of Checksum_Calc
\* had wrapped Byte2 from 255 to 0, 0xFF00 less.
C27_HeaderIncrementByMarker ==
    (op = "CalcNDSSlotHeader" /\ calc.called) =>
        /\ Marker = 0 => calc.Header = HeaderByCalc
        /\ Marker # 0 => \/ calc.Header = HeaderByCalc + 256
                         \/ calc.Header = HeaderByCalc - 65280

\* C27 witness: region 1 with a zero marker whose low bytes carry and whose
\* skipped word is not zero.
C27_Witness ==
    /\ op = "CalcNDSSlotHeader" /\ calc.called /\ calc.Slot = 1
    /\ Marker = 0
    /\ calc.Buffer[SlotSize] = 255 /\ calc.Buffer[SlotSize + 2] = 255
    /\ calc.Buffer[SlotSize + 14] = 255
    /\ calc.Header = HeaderByCalc

(***************************************************************************)
(* FetchSlot on regions that were all saved.                               *)
(***************************************************************************)
\* C28: when regions claim SavSlot and each of them has a save counter of
\* at least 1, FetchSlot(SavSlot, Reg) returns the lowest-index region among
\* those with the maximum counter; that region is identified and its bytes
\* 0xC and 0xD add up to SavSlot.
C28_FetchSlotOfSavedRegions ==
    (/\ FetchCalled
     /\ Claimants(SavData, fetched[1], fetched[2]) # {}
     /\ \A Slot \in Claimants(SavData, fetched[1], fetched[2]) : Counter(SavData, Slot) >= 1)
        => /\ fetched[3] = Min(Newest(SavData, fetched[1], fetched[2]))
           /\ fetched[3] \in 0..4
           /\ IdentifiedAs(SavData, fetched[3], fetched[2])
           /\ Byte(SavData, fetched[3] * SlotSize + 12)
              + Byte(SavData, fetched[3] * SlotSize + 13) = fetched[1]

\* C28 witness: the regions 1 and 3 both claim slot 2 with the counter 2,
\* and FetchSlot returned region 1.
C28_Witness ==
    /\ FetchCalled /\ fetched[1] = 2 /\ fetched[3] = 1
    /\ Claimants(SavData, 2, fetched[2]) = {1, 3}
    /\ Counter(SavData, 1) = 2 /\ Counter(SavData, 3) = 2

(***************************************************************************)
(* What Finish() may write.                                                *)
(***************************************************************************)
\* The offsets of the checksum fields of the slots that exist in the
\* current container.  NDS: 0x28..0x29 of each mapped region.  GBA:
\* 0xFFE..0xFFF of each slot 1..4 that has a non-zero byte among its first
\* ten, and the settings checksum 0xE..0xF.
ChecksumFields ==
    IF core = "NDS"
    THEN { Slots[Idx] * SlotSize + Rel : Idx \in { I \in 0..2 : Slots[I] # -1 }, Rel \in {40, 41} }
    ELSE {14, 15}
         \cup { Slt * SlotSize + Rel :
                  Slt \in { S \in 1..4 : \E Idx \in 0..9 : Byte(SavData, S * SlotSize + Idx) # 0 },
                  Rel \in {4094, 4095} }

\* C29: on a valid container a Finish() changes no byte outside the checksum
\* fields of the existing slots and the GBA settings checksum.
C29_FinishFrame ==
    [][(SavLoaded /\ SavValid /\ op' = "Finish")
        => \A o \in DOMAIN SavData : SavData'[o] # SavData[o] => o \in ChecksumFields]_vars

\* C29 witness: a valid GBA container with the slots 1 and 4 and without
\* the slots 2 and 3 was written to and finished; the checksums of the
\* settings and of slot 4 were repaired.
C29_Witness ==
    /\ core = "GBA" /\ SavLoaded /\ SavValid /\ op = "Finish" /\ streak = 1
    /\ nops > 0
    /\ fixed[0] = "fixed" /\ fixed[4] = "fixed"
    /\ fixed[2] = "none" /\ fixed[3] = "none"
    /\ SavData # Loaded

\* C30: when the validation a load ran reports the buffer invalid, every
\* buffer byte is as loaded, the language byte at 0xA included, and
\* ChangesMade is false.
C30_FailedValidationInert ==
    (SavLoaded /\ HasData /\ op \in LoadOps /\ ~SavValid)
        => (SavData = Loaded /\ ~ChangesMade)

====
